---------------------------- MODULE Spec2Model ----------------------------
(***************************************************************************)
(* A state-machine model of the streaming DEFLATE compressor of Beast     *)
(* (deflate.cpp, basic_deflate_stream.ipp).                                *)
(*                                                                         *)
(* The state is the deflate_stream object (one record, a field per member) *)
(* together with what the caller has written and received.  Every public  *)
(* operation (deflate / write, deflateParams / params, deflateReset) is    *)
(* one action that runs the whole call, engine loop included.              *)
(*                                                                         *)
(* Sizes are parameters of the model.  The source fixes MAX_MATCH = 258 =  *)
(* 8*32 + 2 and takes w_bits in 9..15, hash_bits in 8..16 and lit_bufsize  *)
(* in 128..32768; the model keeps every relation between them              *)
(* (MIN_LOOKAHEAD, MAX_DIST, window_size, hash_shift, pending_buf_size,    *)
(* the 8-fold unrolled compare loop) and instantiates them with small      *)
(* values so that window slides, full tallies and maximal matches are      *)
(* reached by short inputs.                                                *)
(*                                                                         *)
(* The trees subsystem (_tr_init, _tr_flush_block, _tr_stored_block,       *)
(* _tr_align, _tr_flush_bits) and the decoder are not part of the sources  *)
(* modelled here; they are modelled from their contract: a block is a      *)
(* header unit, one unit per token (or per stored byte) and a terminator.  *)
(***************************************************************************)
EXTENDS Integers, Sequences, FiniteSets, TLC

(***************************************************************************)
(* Sizes                                                                   *)
(***************************************************************************)
\* number of 8-byte groups the unrolled compare loop scans (32 in the source)
MatchOctets == 1
\* log2 of the window size (9..15 in the source)
w_bits == 5
\* log2 of the hash table size (memLevel + 7 in the source)
hash_bits == 3
\* number of tally slots (1 << (memLevel + 6) in the source)
lit_bufsize == 4

MIN_MATCH == 3
MAX_MATCH == 8 * MatchOctets + 2
MIN_LOOKAHEAD == MAX_MATCH + MIN_MATCH + 1
WIN_INIT == MAX_MATCH
TOO_FAR == 4096
NIL == 0

w_size == 2 ^ w_bits
window_size == 2 * w_size
MAX_DIST == w_size - MIN_LOOKAHEAD
hash_size == 2 ^ hash_bits
hash_shift == (hash_bits + MIN_MATCH - 1) \div MIN_MATCH
pending_buf_size == lit_bufsize * 4


\* flush modes (the values of zlib.h, which the sources include)
Z_NO_FLUSH == 0
Z_PARTIAL_FLUSH == 1
Z_SYNC_FLUSH == 2
Z_FULL_FLUSH == 3
Z_FINISH == 4
Z_BLOCK == 5

\* return codes
Z_OK == 0
Z_STREAM_END == 1
Z_STREAM_ERROR == -2
Z_BUF_ERROR == -5

\* strategies
Z_DEFAULT_STRATEGY == 0
Z_FILTERED == 1
Z_HUFFMAN_ONLY == 2
Z_RLE == 3
Z_FIXED == 4

Min(a, b) == IF a < b THEN a ELSE b

(***************************************************************************)
(* The level table                                                         *)
(***************************************************************************)
configuration_table ==
  [l \in 0 .. 9 |->
     CASE l = 0 -> [good_length |-> 0,  max_lazy |-> 0,   nice_length |-> 0,   max_chain |-> 0,    func |-> "stored"]
       [] l = 1 -> [good_length |-> 4,  max_lazy |-> 4,   nice_length |-> 8,   max_chain |-> 4,    func |-> "fast"]
       [] l = 2 -> [good_length |-> 4,  max_lazy |-> 5,   nice_length |-> 16,  max_chain |-> 8,    func |-> "fast"]
       [] l = 3 -> [good_length |-> 4,  max_lazy |-> 6,   nice_length |-> 32,  max_chain |-> 32,   func |-> "fast"]
       [] l = 4 -> [good_length |-> 4,  max_lazy |-> 4,   nice_length |-> 16,  max_chain |-> 16,   func |-> "slow"]
       [] l = 5 -> [good_length |-> 8,  max_lazy |-> 16,  nice_length |-> 32,  max_chain |-> 32,   func |-> "slow"]
       [] l = 6 -> [good_length |-> 8,  max_lazy |-> 16,  nice_length |-> 128, max_chain |-> 128,  func |-> "slow"]
       [] l = 7 -> [good_length |-> 8,  max_lazy |-> 32,  nice_length |-> 128, max_chain |-> 256,  func |-> "slow"]
       [] l = 8 -> [good_length |-> 32, max_lazy |-> 128, nice_length |-> 258, max_chain |-> 1024, func |-> "slow"]
       [] OTHER -> [good_length |-> 32, max_lazy |-> 258, nice_length |-> 258, max_chain |-> 4096, func |-> "slow"]]

\* rank Z_BLOCK between Z_NO_FLUSH and Z_PARTIAL_FLUSH
RANK(f) == (f * 2) - (IF f > 4 THEN 9 ELSE 0)

(***************************************************************************)
(* Hashing                                                                 *)
(***************************************************************************)
RECURSIVE BitXor(_, _)
BitXor(a, b) ==
  IF a = 0 THEN b
  ELSE IF b = 0 THEN a
  ELSE (((a % 2) + (b % 2)) % 2) + 2 * BitXor(a \div 2, b \div 2)

UPDATE_HASH(h, c) == BitXor(h * (2 ^ hash_shift), c) % hash_size

\* an insertion that does not link the old chain head
INSERT_STRING_unlinked(s, str) ==
  LET h == UPDATE_HASH(s.ins_h, s.window[str + (MIN_MATCH - 1)])
  IN [s EXCEPT !.ins_h = h, !.head[h] = str]

\* INSERT_STRING: the stream after the insertion; the old chain head is
\* left in prev[str & w_mask]
INSERT_STRING(s, str) ==
  LET h == UPDATE_HASH(s.ins_h, s.window[str + (MIN_MATCH - 1)])
  IN [s EXCEPT !.ins_h = h,
               !.prev[str % w_size] = s.head[h],
               !.head[h] = str]

\* the match_head INSERT_STRING(s, str, match_head) assigns
INSERT_HEAD(s, str) ==
  s.head[UPDATE_HASH(s.ins_h, s.window[str + (MIN_MATCH - 1)])]

CLEAR_HASH(s) == [s EXCEPT !.head = [i \in 0 .. hash_size - 1 |-> NIL]]

(***************************************************************************)
(* fill_window                                                             *)
(***************************************************************************)
read_buf(s, at, size) ==
  LET len == Min(Len(s.next_in), size)
  IN IF len = 0 THEN [s |-> s, n |-> 0]
     ELSE [s |-> [s EXCEPT
                    !.window = [i \in at .. at + len - 1 |->
                                  s.next_in[i - at + 1]] @@ s.window,
                    !.next_in = SubSeq(s.next_in, len + 1, Len(s.next_in)),
                    !.total_in = @ + len],
           n |-> len]

\* a rebase that keeps the positions of the upper half as they were
slide_entry_unbased(m) == IF m >= w_size THEN m ELSE NIL

slide_entry(m) == IF m >= w_size THEN m - w_size ELSE NIL

\* a fill that leaves the window where it is
slide_window_skipped(s) == s

\* a slide that leaves block_start where it is
slide_window_block_kept(s) ==
  [s EXCEPT
     !.window = [i \in 0 .. w_size - 1 |-> s.window[i + w_size]] @@ s.window,
     !.match_start = @ - w_size,
     !.strstart = @ - w_size,
     !.head = [i \in 0 .. hash_size - 1 |-> slide_entry(s.head[i])],
     !.prev = [i \in 0 .. w_size - 1 |-> slide_entry(s.prev[i])]]

\* a slide that moves the indices but not the bytes
slide_window_without_copy(s) ==
  [s EXCEPT
     !.match_start = @ - w_size,
     !.strstart = @ - w_size,
     !.block_start = @ - w_size,
     !.head = [i \in 0 .. hash_size - 1 |-> slide_entry(s.head[i])],
     !.prev = [i \in 0 .. w_size - 1 |-> slide_entry(s.prev[i])]]

slide_window(s) ==
  [s EXCEPT
     !.window = [i \in 0 .. w_size - 1 |-> s.window[i + w_size]] @@ s.window,
     !.match_start = @ - w_size,
     !.strstart = @ - w_size,
     !.block_start = @ - w_size,
     !.head = [i \in 0 .. hash_size - 1 |-> slide_entry(s.head[i])],
     !.prev = [i \in 0 .. w_size - 1 |-> slide_entry(s.prev[i])]]

RECURSIVE fill_insert(_, _)
fill_insert(s, str) ==
  IF s.insert = 0 THEN s
  ELSE LET h == UPDATE_HASH(s.ins_h, s.window[str + MIN_MATCH - 1])
           s1 == [s EXCEPT !.ins_h = h,
                           !.prev[str % w_size] = s.head[h],
                           !.head[h] = str,
                           !.insert = @ - 1]
       IN IF s1.lookahead + s1.insert < MIN_MATCH THEN s1
          ELSE fill_insert(s1, str + 1)

RECURSIVE fill_loop(_)
fill_loop(s) ==
  LET doslide == s.strstart >= w_size + MAX_DIST
      more == window_size - s.lookahead - s.strstart
              + (IF doslide THEN w_size ELSE 0)
      \* while (lookahead < MIN_LOOKAHEAD && avail_in != 0)
      again(s3) == IF s3.lookahead < MIN_LOOKAHEAD /\ Len(s3.next_in) # 0
                   THEN fill_loop(s3) ELSE s3
      \* the hash is brought up to date with the new bytes
      replay(s2) ==
        again(IF s2.lookahead + s2.insert >= MIN_MATCH
              THEN LET str == s2.strstart - s2.insert
                   IN fill_insert(
                        [s2 EXCEPT !.ins_h =
                           UPDATE_HASH(s2.window[str], s2.window[str + 1])],
                        str)
              ELSE s2)
      grow(rb) == replay([rb.s EXCEPT !.lookahead = @ + rb.n])
      read(s1) == IF Len(s1.next_in) = 0 THEN s1
                  ELSE grow(read_buf(s1, s1.strstart + s1.lookahead, more))
  IN read(IF doslide THEN slide_window(s) ELSE s)

zero_fill(w, from, n) == [i \in from .. from + n - 1 |-> 0] @@ w

high_water_update(s) ==
  IF s.high_water < window_size
  THEN LET curr == s.strstart + s.lookahead
       IN IF s.high_water < curr
          THEN LET init == Min(window_size - curr, WIN_INIT)
               IN [s EXCEPT !.window = zero_fill(s.window, curr, init),
                            !.high_water = curr + init]
          ELSE IF s.high_water < curr + WIN_INIT
          THEN LET init == Min(curr + WIN_INIT - s.high_water,
                               window_size - s.high_water)
               IN [s EXCEPT !.window = zero_fill(s.window, s.high_water, init),
                            !.high_water = @ + init]
          ELSE s
  ELSE s

fill_window(s) == high_water_update(fill_loop(s))


(***************************************************************************)
(* The tally (the _tr_tally_lit / _tr_tally_dist macros)                   *)
(***************************************************************************)
\* a tally that enters a literal twice
tr_tally_lit_twice(s, c) ==
  [s EXCEPT !.tally = Append(Append(@, <<0, c>>), <<0, c>>)]

\* d_buf[last_lit] = 0; l_buf[last_lit++] = c
tr_tally_lit(s, c) == [s EXCEPT !.tally = Append(@, <<0, c>>)]

\* d_buf[last_lit] = (uint16) distance; l_buf[last_lit++] = (uint8) length
tr_tally_dist(s, distance, length) ==
  [s EXCEPT !.tally = Append(@, <<distance % 65536, length % 256>>)]

\* a test that asks for the flush one token late
tally_full_late(s) == Len(s.tally) = s.lit_bufsize

\* flush = (last_lit == lit_bufsize - 1)
tally_full(s) == Len(s.tally) = s.lit_bufsize - 1

(***************************************************************************)
(* The trees subsystem, from its contract.  An output unit is a triple     *)
(* <<kind, a, b>>:                                                         *)
(*   <<"blk", last, 0>>    header of a block of codes                      *)
(*   <<"lit", c, 0>>       a literal                                       *)
(*   <<"ref", dist, lc>>   a back-reference of length lc + MIN_MATCH       *)
(*   <<"eob", 0, 0>>       end of a block of codes                         *)
(*   <<"aln", 0, 0>>       header of the empty static block of _tr_align   *)
(*   <<"sto", last, 0>>    header of a stored block                        *)
(*   <<"len", n, 65535-n>> LEN and NLEN of a stored block                  *)
(*   <<"raw", c, 0>>       a stored byte                                   *)
(* Codes go through the bit accumulator bi_buf, whose last unit is an      *)
(* incomplete byte; a stored block and a final block are byte aligned.     *)
(***************************************************************************)
tr_init(s) == [s EXCEPT !.tally = <<>>, !.bi_buf = <<>>]

token_unit(t) == IF t[1] = 0 THEN <<"lit", t[2], 0>> ELSE <<"ref", t[1], t[2]>>

\* the units sent through the bit accumulator: all but the last two reach
\* pending at once; bi_windup empties the accumulator
send_units(s, units, windup) ==
  LET all == s.bi_buf \o units
      keep == IF windup THEN 0 ELSE Min(2, Len(all))
  IN [s EXCEPT !.pending = @ \o SubSeq(all, 1, Len(all) - keep),
               !.bi_buf = SubSeq(all, Len(all) - keep + 1, Len(all))]

\* whole bytes of the accumulator move to pending; the incomplete one stays
tr_flush_bits(s) ==
  IF Len(s.bi_buf) > 1
  THEN [s EXCEPT !.pending = @ \o SubSeq(s.bi_buf, 1, Len(s.bi_buf) - 1),
                 !.bi_buf = <<s.bi_buf[Len(s.bi_buf)]>>]
  ELSE s

\* _tr_stored_block(buf, stored_len, last); buf is an index of the window
tr_stored_block(s, buf, stored_len, last) ==
  LET s1 == send_units(s, <<<<"sto", last, 0>>>>, TRUE)
  IN [s1 EXCEPT !.pending = @ \o <<<<"len", stored_len, 65535 - stored_len>>>>
                              \o [i \in 1 .. stored_len |->
                                    <<"raw", s.window[buf + i - 1], 0>>]]

\* _tr_align: an empty static block, then bi_flush
tr_align(s) ==
  tr_flush_bits(send_units(s, <<<<"aln", 0, 0>>, <<"eob", 0, 0>>>>, FALSE))

\* _tr_flush_block(buf, stored_len, last): buf_ok is buf != NULL;
\* stored_cheaper is the outcome of the cost comparison for levels > 0
tr_flush_block(s, buf_ok, buf, stored_len, last, stored_cheaper) ==
  LET s1 == IF buf_ok /\ (s.level = 0 \/ stored_cheaper)
            THEN tr_stored_block(s, buf, stored_len, last)
            ELSE send_units(s,
                   <<<<"blk", last, 0>>>>
                   \o [i \in 1 .. Len(s.tally) |-> token_unit(s.tally[i])]
                   \o <<<<"eob", 0, 0>>>>,
                   last = 1)
  IN [s1 EXCEPT !.tally = <<>>]

(***************************************************************************)
(* flush_pending                                                           *)
(***************************************************************************)
\* a flush_pending that does not advance pending_out
flush_pending_without_advance(s0) ==
  LET s == tr_flush_bits(s0)
      len == Min(Len(s.pending), s.avail_out)
  IN IF len = 0 THEN s
     ELSE [s EXCEPT !.out = @ \o SubSeq(s.pending, 1, len),
                    !.total_out = @ + len,
                    !.avail_out = @ - len]

\* a flush_pending that copies only when all of pending fits
flush_pending_whole_only(s0) ==
  LET s == tr_flush_bits(s0)
      len == Len(s.pending)
  IN IF len = 0 \/ len > s.avail_out THEN s
     ELSE [s EXCEPT !.out = @ \o SubSeq(s.pending, 1, len),
                    !.pending = SubSeq(s.pending, len + 1, Len(s.pending)),
                    !.total_out = @ + len,
                    !.avail_out = @ - len]

flush_pending(s0) ==
  LET copy(s, len) ==
        IF len = 0 THEN s
        ELSE [s EXCEPT !.out = @ \o SubSeq(s.pending, 1, len),
                       !.pending = SubSeq(s.pending, len + 1, Len(s.pending)),
                       !.total_out = @ + len,
                       !.avail_out = @ - len]
      flushed(s) == copy(s, Min(Len(s.pending), s.avail_out))
  IN flushed(tr_flush_bits(s0))

(***************************************************************************)
(* longest_match                                                           *)
(***************************************************************************)
\* the unrolled compare loop: the index scan stops at; k counts the
\* comparisons made since scan < strend was last tested
RECURSIVE scan_run(_, _, _, _, _)
scan_run(w, scan, match, strend, k) ==
  IF w[scan + 1] # w[match + 1] THEN scan + 1
  ELSE IF k = 7
       THEN IF scan + 1 < strend
            THEN scan_run(w, scan + 1, match + 1, strend, 0)
            ELSE scan + 1
       ELSE scan_run(w, scan + 1, match + 1, strend, k + 1)

\* a chain loop that goes on whatever is left of chain_length
RECURSIVE match_loop_unbudgeted(_, _, _, _, _, _, _)
match_loop_unbudgeted(s, cur_match, chain_length, best_len, match_start, nice_match, limit) ==
  LET w == s.window
      scan == s.strstart
      strend == s.strstart + MAX_MATCH
      skip == \/ w[cur_match + best_len] # w[scan + best_len]
              \/ w[cur_match + best_len - 1] # w[scan + best_len - 1]
              \/ w[cur_match] # w[scan]
              \/ w[cur_match + 1] # w[scan + 1]
      len == MAX_MATCH - (strend - scan_run(w, scan + 2, cur_match + 2, strend, 0))
      better == ~skip /\ len > best_len
      best2 == IF better THEN len ELSE best_len
      start2 == IF better THEN cur_match ELSE match_start
      next == s.prev[cur_match % w_size]
  IN IF (better /\ len >= nice_match) \/ ~(next > limit)
     THEN [best_len |-> best2, match_start |-> start2, seen |-> <<cur_match>>]
     ELSE [match_loop_unbudgeted(s, next, chain_length - 1, best2, start2,
                                 nice_match, limit)
             EXCEPT !.seen = <<cur_match>> \o @]

RECURSIVE match_loop(_, _, _, _, _, _, _)
match_loop(s, cur_match, chain_length, best_len, match_start, nice_match, limit) ==
  LET w == s.window
      scan == s.strstart
      strend == s.strstart + MAX_MATCH
      skip == \/ w[cur_match + best_len] # w[scan + best_len]
              \/ w[cur_match + best_len - 1] # w[scan + best_len - 1]
              \/ w[cur_match] # w[scan]
              \/ w[cur_match + 1] # w[scan + 1]
      len == MAX_MATCH - (strend - scan_run(w, scan + 2, cur_match + 2, strend, 0))
      better == ~skip /\ len > best_len
      best2 == IF better THEN len ELSE best_len
      start2 == IF better THEN cur_match ELSE match_start
      next == s.prev[cur_match % w_size]
  \* the loop ends at the break on a nice match or when its condition
  \* fails; seen lists the candidates it has examined
  IN IF (better /\ len >= nice_match)
        \/ ~(next > limit /\ chain_length - 1 # 0)
     THEN [best_len |-> best2, match_start |-> start2, seen |-> <<cur_match>>]
     ELSE [match_loop(s, next, chain_length - 1, best2, start2,
                      nice_match, limit)
             EXCEPT !.seen = <<cur_match>> \o @]

\* a match finder that goes on looking for a match longer than the
\* lookahead
longest_match_nice_uncapped(s, cur_match) ==
  LET chain_length == IF s.prev_length >= s.good_match
                      THEN s.max_chain_length \div 4 ELSE s.max_chain_length
      limit == IF s.strstart > MAX_DIST THEN s.strstart - MAX_DIST ELSE NIL
      r == match_loop(s, cur_match, chain_length, s.prev_length, s.match_start,
                      s.nice_match, limit)
  IN [len |-> IF r.best_len <= s.lookahead THEN r.best_len ELSE s.lookahead,
      match_start |-> r.match_start]

\* a match finder that returns the length it found, whatever the lookahead
longest_match_beyond_lookahead(s, cur_match) ==
  LET chain_length == IF s.prev_length >= s.good_match
                      THEN s.max_chain_length \div 4 ELSE s.max_chain_length
      nice_match == IF s.nice_match > s.lookahead THEN s.lookahead ELSE s.nice_match
      limit == IF s.strstart > MAX_DIST THEN s.strstart - MAX_DIST ELSE NIL
      r == match_loop(s, cur_match, chain_length, s.prev_length, s.match_start,
                      nice_match, limit)
  IN [len |-> r.best_len, match_start |-> r.match_start]

\* longest_match up to the end of its chain loop
longest_walk(s, cur_match) ==
  LET chain_length == IF s.prev_length >= s.good_match
                      THEN s.max_chain_length \div 4 ELSE s.max_chain_length
      nice_match == IF s.nice_match > s.lookahead THEN s.lookahead ELSE s.nice_match
      limit == IF s.strstart > MAX_DIST THEN s.strstart - MAX_DIST ELSE NIL
  IN match_loop(s, cur_match, chain_length, s.prev_length,
                s.match_start, nice_match, limit)

longest_match(s, cur_match) ==
  LET \* if (best_len <= lookahead) return best_len; return lookahead
      found(r) == [len |-> IF r.best_len <= s.lookahead
                           THEN r.best_len ELSE s.lookahead,
                   match_start |-> r.match_start]
  IN found(longest_walk(s, cur_match))

(***************************************************************************)
(* FLUSH_BLOCK_ONLY                                                        *)
(***************************************************************************)
\* a FLUSH_BLOCK_ONLY that never marks the block as the last one
FLUSH_BLOCK_ONLY_never_last(s, last, stored_cheaper) ==
  LET s1 == tr_flush_block(s, s.block_start >= 0, s.block_start,
                           s.strstart - s.block_start, 0, stored_cheaper)
  IN flush_pending([s1 EXCEPT !.block_start = s.strstart])

FLUSH_BLOCK_ONLY(s, last, stored_cheaper) ==
  LET s1 == tr_flush_block(s, s.block_start >= 0, s.block_start,
                           s.strstart - s.block_start, last, stored_cheaper)
  IN flush_pending([s1 EXCEPT !.block_start = s.strstart])

(***************************************************************************)
(* The engines.  X_step is one pass of the for (;;) loop of engine X: it    *)
(* gives [s |-> the stream, r |-> the block_state returned], or r =        *)
(* "continue" when the loop goes round again.                              *)
(***************************************************************************)
\* an epilogue that reports finish_done whatever output space is left
engine_epilogue_always_done(s, flush, stored_cheaper, nonempty) ==
  IF flush = Z_FINISH
  THEN [s |-> FLUSH_BLOCK_ONLY(s, 1, stored_cheaper), r |-> "finish_done"]
  ELSE IF nonempty
  THEN LET s1 == FLUSH_BLOCK_ONLY(s, 0, stored_cheaper)
       IN [s |-> s1,
           r |-> IF s1.avail_out = 0 THEN "need_more" ELSE "block_done"]
  ELSE [s |-> s, r |-> "block_done"]

\* an epilogue that leaves the tokens in the tally when the flush is not
\* the last one
engine_epilogue_tally_kept(s, flush, stored_cheaper, nonempty) ==
  IF flush = Z_FINISH
  THEN LET s1 == FLUSH_BLOCK_ONLY(s, 1, stored_cheaper)
       IN [s |-> s1,
           r |-> IF s1.avail_out = 0 THEN "finish_started" ELSE "finish_done"]
  ELSE [s |-> s, r |-> "block_done"]

\* the common epilogue of the engines, after insert has been set
engine_epilogue(s, flush, stored_cheaper, nonempty) ==
  LET flushed(s1, full, room) ==
        [s |-> s1, r |-> IF s1.avail_out = 0 THEN full ELSE room]
  IN IF flush = Z_FINISH
     THEN flushed(FLUSH_BLOCK_ONLY(s, 1, stored_cheaper),
                  "finish_started", "finish_done")
     ELSE IF nonempty
     THEN flushed(FLUSH_BLOCK_ONLY(s, 0, stored_cheaper),
                  "need_more", "block_done")
     ELSE [s |-> s, r |-> "block_done"]

\* min(0xffff, pending_buf_size - 5)
max_block_size == Min(65535, pending_buf_size - 5)

deflate_stored_step(s, flush, stored_cheaper) ==
  LET fill == s.lookahead <= 1
      \* FLUSH_BLOCK(s, 0)
      flushed(s4) ==
        [s |-> s4, r |-> IF s4.avail_out = 0 THEN "need_more" ELSE "continue"]
      \* flush if the block may have to be slid out of the window
      far(s3, over) ==
        IF over /\ s3.avail_out = 0
        THEN [s |-> s3, r |-> "need_more"]
        ELSE IF s3.strstart - s3.block_start >= MAX_DIST
        THEN flushed(FLUSH_BLOCK_ONLY(s3, 0, stored_cheaper))
        ELSE [s |-> s3, r |-> "continue"]
      \* emit a stored block if pending_buf will be full
      cut(s2, max_start, over) ==
        far(IF over
            THEN FLUSH_BLOCK_ONLY(
                   [s2 EXCEPT !.lookahead = s2.strstart - max_start,
                              !.strstart = max_start],
                   0, stored_cheaper)
            ELSE s2,
            over)
      taken(s2, max_start) ==
        cut(s2, max_start,
            s2.strstart = 0 \/ (max_start >= 0 /\ s2.strstart >= max_start))
      filled(s1) ==
        IF fill /\ s1.lookahead = 0 /\ flush = Z_NO_FLUSH
        THEN [s |-> s1, r |-> "need_more"]
        ELSE IF fill /\ s1.lookahead = 0
        THEN engine_epilogue([s1 EXCEPT !.insert = 0], flush, stored_cheaper,
                             s1.strstart > s1.block_start)
        ELSE taken([s1 EXCEPT !.strstart = @ + s1.lookahead, !.lookahead = 0],
                   s1.block_start + Min(65535, s1.pending_buf_size - 5))
  IN filled(IF fill THEN fill_window(s) ELSE s)

\* do { strstart++; INSERT_STRING } while (--match_length != 0)
RECURSIVE fast_insert(_)
fast_insert(s) ==
  LET again(s2) == IF s2.match_length # 0 THEN fast_insert(s2) ELSE s2
  IN again([INSERT_STRING([s EXCEPT !.strstart = @ + 1], s.strstart + 1)
              EXCEPT !.match_length = @ - 1])

deflate_fast_step(s, flush, stored_cheaper) ==
  LET fill == s.lookahead < MIN_LOOKAHEAD
      \* if (bflush) FLUSH_BLOCK(s, 0)
      flushed(s5, bflush) ==
        [s |-> s5,
         r |-> IF bflush /\ s5.avail_out = 0 THEN "need_more" ELSE "continue"]
      tallied(s4) ==
        flushed(IF tally_full(s4)
                THEN FLUSH_BLOCK_ONLY(s4, 0, stored_cheaper) ELSE s4,
                tally_full(s4))
      \* the strings of the match are inserted, or skipped
      skip(b) ==
        IF b.match_length <= b.max_lazy_match /\ b.lookahead >= MIN_MATCH
        THEN [fast_insert([b EXCEPT !.match_length = @ - 1])
                EXCEPT !.strstart = @ + 1]
        ELSE LET pos == b.strstart + b.match_length
             IN [b EXCEPT !.strstart = pos,
                          !.match_length = 0,
                          !.ins_h = UPDATE_HASH(b.window[pos],
                                                b.window[pos + 1])]
      taken(a) == skip([a EXCEPT !.lookahead = @ - a.match_length])
      \* a match or a literal is tallied
      emit(s3) ==
        tallied(IF s3.match_length >= MIN_MATCH
                THEN taken(tr_tally_dist(s3, s3.strstart - s3.match_start,
                                         s3.match_length - MIN_MATCH))
                ELSE [tr_tally_lit(s3, s3.window[s3.strstart])
                        EXCEPT !.lookahead = @ - 1, !.strstart = @ + 1])
      found(s2, lm) ==
        [s2 EXCEPT !.match_length = lm.len, !.match_start = lm.match_start]
      search(s2, hash_head) ==
        emit(IF hash_head # NIL /\ s2.strstart - hash_head >= 0
                /\ s2.strstart - hash_head <= MAX_DIST
             THEN found(s2, longest_match(s2, hash_head))
             ELSE s2)
      insert(s1, ins) ==
        search(IF ins THEN INSERT_STRING(s1, s1.strstart) ELSE s1,
               IF ins THEN INSERT_HEAD(s1, s1.strstart) ELSE NIL)
      filled(s1) ==
        IF fill /\ s1.lookahead < MIN_LOOKAHEAD /\ flush = Z_NO_FLUSH
        THEN [s |-> s1, r |-> "need_more"]
        ELSE IF fill /\ s1.lookahead = 0
        THEN engine_epilogue(
               [s1 EXCEPT !.insert = Min(s1.strstart, MIN_MATCH - 1)],
               flush, stored_cheaper, Len(s1.tally) # 0)
        ELSE insert(s1, s1.lookahead >= MIN_MATCH)
  IN filled(IF fill THEN fill_window(s) ELSE s)

\* do { if (++strstart <= max_insert) INSERT_STRING } while (--prev_length != 0)
RECURSIVE slow_insert(_, _)
slow_insert(s, max_insert) ==
  LET again(s3) == IF s3.prev_length # 0 THEN slow_insert(s3, max_insert) ELSE s3
      insert(s1) ==
        again([(IF s1.strstart <= max_insert
                THEN INSERT_STRING(s1, s1.strstart) ELSE s1)
                 EXCEPT !.prev_length = @ - 1])
  IN insert([s EXCEPT !.strstart = @ + 1])

\* a test that lets a match of equal length displace the previous match
lazy_commit_strict(s) ==
  s.prev_length >= MIN_MATCH /\ s.match_length < s.prev_length

\* if (prev_length >= MIN_MATCH && match_length <= prev_length)
lazy_commit(s) ==
  s.prev_length >= MIN_MATCH /\ s.match_length <= s.prev_length

deflate_slow_step(s, flush, stored_cheaper) ==
  LET fill == s.lookahead < MIN_LOOKAHEAD
      \* if (bflush) FLUSH_BLOCK(s, 0)
      flushed(e, bflush) ==
        [s |-> e,
         r |-> IF bflush /\ e.avail_out = 0 THEN "need_more" ELSE "continue"]
      close(d, bflush) ==
        flushed(IF bflush THEN FLUSH_BLOCK_ONLY(d, 0, stored_cheaper) ELSE d,
                bflush)
      inserted(c, bflush) ==
        close([c EXCEPT !.match_available = 0,
                        !.match_length = MIN_MATCH - 1,
                        !.strstart = @ + 1],
              bflush)
      \* the previous match is tallied and its strings are inserted
      previous(a, max_insert) ==
        inserted(slow_insert([a EXCEPT !.lookahead = @ - (a.prev_length - 1),
                                       !.prev_length = @ - 2],
                             max_insert),
                 tally_full(a))
      \* the previous byte is tallied as a literal
      moved(c) ==
        [s |-> c, r |-> IF c.avail_out = 0 THEN "need_more" ELSE "continue"]
      literal(a) ==
        moved([(IF tally_full(a)
                THEN FLUSH_BLOCK_ONLY(a, 0, stored_cheaper) ELSE a)
                 EXCEPT !.strstart = @ + 1, !.lookahead = @ - 1])
      decide(s3) ==
        IF lazy_commit(s3)
        THEN previous(tr_tally_dist(s3, s3.strstart - 1 - s3.prev_match,
                                    s3.prev_length - MIN_MATCH),
                      s3.strstart + s3.lookahead - MIN_MATCH)
        ELSE IF s3.match_available = 1
        THEN literal(tr_tally_lit(s3, s3.window[s3.strstart - 1]))
        ELSE [s |-> [s3 EXCEPT !.match_available = 1,
                               !.strstart = @ + 1,
                               !.lookahead = @ - 1],
              r |-> "continue"]
      found(s2, lm) ==
        [s2 EXCEPT
           !.match_start = lm.match_start,
           !.match_length =
              IF lm.len <= 5
                 /\ (s2.strategy = Z_FILTERED
                     \/ (lm.len = MIN_MATCH
                         /\ (s2.strstart - lm.match_start < 0
                             \/ s2.strstart - lm.match_start > TOO_FAR)))
              THEN MIN_MATCH - 1 ELSE lm.len]
      search(s2, hash_head) ==
        decide(IF hash_head # NIL /\ s2.prev_length < s2.max_lazy_match
                  /\ s2.strstart - hash_head >= 0
                  /\ s2.strstart - hash_head <= MAX_DIST
               THEN found(s2, longest_match(s2, hash_head))
               ELSE s2)
      shift(s2a, hash_head) ==
        search([s2a EXCEPT !.prev_length = s2a.match_length,
                           !.prev_match = s2a.match_start,
                           !.match_length = MIN_MATCH - 1],
               hash_head)
      insert(s1, ins) ==
        shift(IF ins THEN INSERT_STRING(s1, s1.strstart) ELSE s1,
              IF ins THEN INSERT_HEAD(s1, s1.strstart) ELSE NIL)
      last(s2) ==
        engine_epilogue([s2 EXCEPT !.insert = Min(s2.strstart, MIN_MATCH - 1)],
                        flush, stored_cheaper, Len(s2.tally) # 0)
      filled(s1) ==
        IF fill /\ s1.lookahead < MIN_LOOKAHEAD /\ flush = Z_NO_FLUSH
        THEN [s |-> s1, r |-> "need_more"]
        ELSE IF fill /\ s1.lookahead = 0
        THEN last(IF s1.match_available = 1
                  THEN [tr_tally_lit(s1, s1.window[s1.strstart - 1])
                          EXCEPT !.match_available = 0]
                  ELSE s1)
        ELSE insert(s1, s1.lookahead >= MIN_MATCH)
  IN filled(IF fill THEN fill_window(s) ELSE s)

\* the unrolled run scan of deflate_rle
RECURSIVE rle_run(_, _, _, _, _)
rle_run(w, prev, scan, strend, k) ==
  IF prev # w[scan + 1] THEN scan + 1
  ELSE IF k = 7
       THEN IF scan + 1 < strend THEN rle_run(w, prev, scan + 1, strend, 0)
            ELSE scan + 1
       ELSE rle_run(w, prev, scan + 1, strend, k + 1)

\* a run length that is not cut to the lookahead
rle_match_length_uncut(s) ==
  IF s.lookahead >= MIN_MATCH /\ s.strstart > 0
  THEN LET w == s.window
           prev == w[s.strstart - 1]
           strend == s.strstart + MAX_MATCH
       IN IF prev = w[s.strstart] /\ prev = w[s.strstart + 1]
             /\ prev = w[s.strstart + 2]
          THEN MAX_MATCH - (strend - rle_run(w, prev, s.strstart + 2, strend, 0))
          ELSE 0
  ELSE 0

rle_match_length(s) ==
  IF s.lookahead >= MIN_MATCH /\ s.strstart > 0
  THEN LET w == s.window
           prev == w[s.strstart - 1]
           strend == s.strstart + MAX_MATCH
       IN IF prev = w[s.strstart] /\ prev = w[s.strstart + 1]
             /\ prev = w[s.strstart + 2]
          THEN Min(MAX_MATCH - (strend - rle_run(w, prev, s.strstart + 2, strend, 0)),
                   s.lookahead)
          ELSE 0
  ELSE 0

deflate_rle_step(s, flush, stored_cheaper) ==
  LET fill == s.lookahead <= MAX_MATCH
      \* if (bflush) FLUSH_BLOCK(s, 0)
      flushed(s4, bflush) ==
        [s |-> s4,
         r |-> IF bflush /\ s4.avail_out = 0 THEN "need_more" ELSE "continue"]
      tallied(s3) ==
        flushed(IF tally_full(s3)
                THEN FLUSH_BLOCK_ONLY(s3, 0, stored_cheaper) ELSE s3,
                tally_full(s3))
      \* a run or a literal is tallied
      emit(s2) ==
        tallied(IF s2.match_length >= MIN_MATCH
                THEN [tr_tally_dist(s2, 1, s2.match_length - MIN_MATCH)
                        EXCEPT !.lookahead = @ - s2.match_length,
                               !.strstart = @ + s2.match_length,
                               !.match_length = 0]
                ELSE [tr_tally_lit(s2, s2.window[s2.strstart])
                        EXCEPT !.lookahead = @ - 1, !.strstart = @ + 1])
      filled(s1) ==
        IF fill /\ s1.lookahead <= MAX_MATCH /\ flush = Z_NO_FLUSH
        THEN [s |-> s1, r |-> "need_more"]
        ELSE IF fill /\ s1.lookahead = 0
        THEN engine_epilogue([s1 EXCEPT !.insert = 0], flush, stored_cheaper,
                             Len(s1.tally) # 0)
        ELSE emit([s1 EXCEPT !.match_length = rle_match_length(s1)])
  IN filled(IF fill THEN fill_window(s) ELSE s)

deflate_huff_step(s, flush, stored_cheaper) ==
  LET fill == s.lookahead = 0
      \* if (bflush) FLUSH_BLOCK(s, 0)
      flushed(s3, bflush) ==
        [s |-> s3,
         r |-> IF bflush /\ s3.avail_out = 0 THEN "need_more" ELSE "continue"]
      tallied(s2) ==
        flushed(IF tally_full(s2)
                THEN FLUSH_BLOCK_ONLY(s2, 0, stored_cheaper) ELSE s2,
                tally_full(s2))
      filled(s1) ==
        IF fill /\ s1.lookahead = 0 /\ flush = Z_NO_FLUSH
        THEN [s |-> s1, r |-> "need_more"]
        ELSE IF fill /\ s1.lookahead = 0
        THEN engine_epilogue([s1 EXCEPT !.insert = 0], flush, stored_cheaper,
                             Len(s1.tally) # 0)
        ELSE tallied([tr_tally_lit([s1 EXCEPT !.match_length = 0],
                                   s1.window[s1.strstart])
                        EXCEPT !.lookahead = @ - 1, !.strstart = @ + 1])
  IN filled(IF fill THEN fill_window(s) ELSE s)

(***************************************************************************)
(* deflate (write)                                                         *)
(***************************************************************************)
BUSY_STATE == 113
FINISH_STATE == 666

\* the engine deflate dispatches to
engine_of(s) ==
  IF s.strategy = Z_HUFFMAN_ONLY THEN "huff"
  ELSE IF s.strategy = Z_RLE THEN "rle"
  ELSE configuration_table[s.level].func

engine_step(s, flush, stored_cheaper) ==
  CASE engine_of(s) = "huff" -> deflate_huff_step(s, flush, stored_cheaper)
    [] engine_of(s) = "rle" -> deflate_rle_step(s, flush, stored_cheaper)
    [] engine_of(s) = "stored" -> deflate_stored_step(s, flush, stored_cheaper)
    [] engine_of(s) = "fast" -> deflate_fast_step(s, flush, stored_cheaper)
    [] engine_of(s) = "slow" -> deflate_slow_step(s, flush, stored_cheaper)

\* the for (;;) loop of an engine: at most n passes, split in halves to
\* keep the evaluation shallow
RECURSIVE engine_loop(_, _, _, _)
engine_loop(e, flush, stored_cheaper, n) ==
  IF e.r # "continue" \/ n = 0 THEN e
  ELSE IF n = 1 THEN engine_step(e.s, flush, stored_cheaper)
  ELSE engine_loop(engine_loop(e, flush, stored_cheaper, n \div 2),
                   flush, stored_cheaper, n - (n \div 2))

\* every pass but the last takes at least one byte of lookahead
run_engine(s, flush, stored_cheaper) ==
  engine_loop([s |-> s, r |-> "continue"], flush, stored_cheaper,
              Len(s.next_in) + s.lookahead + 2)

\* a boundary that answers a sync flush with the partial flush's block
flush_marker_sync_as_partial(s, flush) ==
  IF flush = Z_PARTIAL_FLUSH \/ flush = Z_SYNC_FLUSH THEN tr_align(s)
  ELSE IF flush # Z_BLOCK
  THEN LET s1 == tr_stored_block(s, 0, 0, 0)
       IN IF flush = Z_FULL_FLUSH
          THEN LET s2 == CLEAR_HASH(s1)
               IN IF s2.lookahead = 0
                  THEN [s2 EXCEPT !.strstart = 0, !.block_start = 0, !.insert = 0]
                  ELSE s2
          ELSE s1
  ELSE s

\* a boundary that answers a full flush like a sync flush
flush_marker_full_as_sync(s, flush) ==
  IF flush = Z_PARTIAL_FLUSH THEN tr_align(s)
  ELSE IF flush # Z_BLOCK THEN tr_stored_block(s, 0, 0, 0)
  ELSE s

\* a boundary that answers a block flush like a sync flush
flush_marker_block_as_sync(s, flush) ==
  IF flush = Z_PARTIAL_FLUSH THEN tr_align(s)
  ELSE LET s1 == tr_stored_block(s, 0, 0, 0)
       IN IF flush = Z_FULL_FLUSH
          THEN LET s2 == CLEAR_HASH(s1)
               IN IF s2.lookahead = 0
                  THEN [s2 EXCEPT !.strstart = 0, !.block_start = 0, !.insert = 0]
                  ELSE s2
          ELSE s1

\* the boundary deflate appends after block_done
flush_marker(s, flush) ==
  IF flush = Z_PARTIAL_FLUSH THEN tr_align(s)
  ELSE IF flush # Z_BLOCK
  THEN LET s1 == tr_stored_block(s, 0, 0, 0)
       IN IF flush = Z_FULL_FLUSH
          THEN LET s2 == CLEAR_HASH(s1)
               IN IF s2.lookahead = 0
                  THEN [s2 EXCEPT !.strstart = 0, !.block_start = 0, !.insert = 0]
                  ELSE s2
          ELSE s1
  ELSE s

stream_end_or_ok(s, flush) ==
  [s |-> s, ret |-> IF flush # Z_FINISH THEN Z_OK ELSE Z_STREAM_END]

\* a condition that forgets that the stream is finished
blocks_to_do_after_finish(s, flush) ==
  Len(s.next_in) # 0 \/ s.lookahead # 0 \/ flush # Z_NO_FLUSH

\* the condition under which deflate starts or continues a block
blocks_to_do(s, flush) ==
  Len(s.next_in) # 0 \/ s.lookahead # 0
  \/ (flush # Z_NO_FLUSH /\ s.status # FINISH_STATE)

\* a stall that leaves last_flush as the call set it
stall_mark_forgotten(s) == s

\* the mark deflate leaves when it returns with the output buffer full
stall_mark(s) == [s EXCEPT !.last_flush = -1]

\* deflate once the engine has returned: result.r is the block_state and
\* result.s the stream it left
deflate_after(result, flush) ==
  LET \* the boundary is out, or the output is full
      marked(s2) == IF s2.avail_out = 0
                    THEN [s |-> stall_mark(s2), ret |-> Z_OK]
                    ELSE stream_end_or_ok(s2, flush)
      returned(bstate, s1) ==
        IF bstate \in {"need_more", "finish_started"}
        THEN [s |-> IF s1.avail_out = 0 THEN stall_mark(s1) ELSE s1,
              ret |-> Z_OK]
        ELSE IF bstate = "block_done"
        THEN marked(flush_pending(flush_marker(s1, flush)))
        ELSE stream_end_or_ok(s1, flush)
      ran(e) ==
        returned(e.r, IF e.r \in {"finish_started", "finish_done"}
                      THEN [e.s EXCEPT !.status = FINISH_STATE] ELSE e.s)
  IN ran(result)

\* deflate from "Start a new block or continue the current one"
deflate_blocks(s, flush, stored_cheaper) ==
  IF blocks_to_do(s, flush)
  THEN deflate_after(run_engine(s, flush, stored_cheaper), flush)
  ELSE stream_end_or_ok(s, flush)

\* a test that lets a flush of equal rank through
redundant_flush_strictly_lower(s, flush, old_flush) ==
  Len(s.next_in) = 0 /\ RANK(flush) < RANK(old_flush) /\ flush # Z_FINISH

\* a test that also rejects a flush that comes with input
redundant_flush_with_input(s, flush, old_flush) ==
  RANK(flush) <= RANK(old_flush) /\ flush # Z_FINISH

\* the test that rejects a flush repeated without new input
redundant_flush(s, flush, old_flush) ==
  Len(s.next_in) = 0 /\ RANK(flush) <= RANK(old_flush) /\ flush # Z_FINISH

\* strm->avail_in: the length of next_in, or what the caller passes along
\* with a null next_in
avail_in(s) == IF s.next_in_null THEN s.null_avail_in ELSE Len(s.next_in)

\* a validation that lets a call with another flush mode through after
\* finish
invalid_call_without_finish(s, flush) ==
  \/ flush > Z_BLOCK \/ flush < 0
  \/ s.next_out_null
  \/ s.next_in_null /\ avail_in(s) # 0

\* the calls deflate rejects with stream_error
invalid_call(s, flush) ==
  \/ flush > Z_BLOCK \/ flush < 0
  \/ s.next_out_null
  \/ s.next_in_null /\ avail_in(s) # 0
  \/ s.status = FINISH_STATE /\ flush # Z_FINISH

deflate(s, flush, stored_cheaper) ==
  IF invalid_call(s, flush)
  THEN [s |-> s, ret |-> Z_STREAM_ERROR]
  ELSE IF s.avail_out = 0
  THEN [s |-> s, ret |-> Z_BUF_ERROR]
  ELSE
    LET old_flush == s.last_flush
        \* s1 holds the new last_flush, s2 what is left after the drain
        drained(s1, s2) ==
          IF Len(s1.pending) # 0 /\ s2.avail_out = 0
          THEN [s |-> stall_mark(s2), ret |-> Z_OK]
          ELSE IF Len(s1.pending) = 0 /\ redundant_flush(s1, flush, old_flush)
          THEN [s |-> s1, ret |-> Z_BUF_ERROR]
          ELSE IF s2.status = FINISH_STATE /\ Len(s2.next_in) # 0
          THEN [s |-> s2, ret |-> Z_BUF_ERROR]
          ELSE deflate_blocks(s2, flush, stored_cheaper)
        recorded(s1) ==
          drained(s1, IF Len(s1.pending) # 0 THEN flush_pending(s1) ELSE s1)
    IN recorded([s EXCEPT !.last_flush = flush])

(***************************************************************************)
(* deflateParams (params)                                                  *)
(***************************************************************************)
\* the condition under which deflateParams flushes the last buffer
params_switch(s, level, strategy) ==
  (strategy # s.strategy
   \/ configuration_table[s.level].func # configuration_table[level].func)
  /\ s.total_in # 0

deflateParams(s, level, strategy, stored_cheaper) ==
  IF level < 0 \/ level > 9 \/ strategy < 0 \/ strategy > Z_FIXED
  THEN [s |-> s, ret |-> Z_STREAM_ERROR]
  ELSE
    LET set_level(s1) ==
          IF s1.level # level
          THEN [s1 EXCEPT
                  !.level = level,
                  !.max_lazy_match = configuration_table[level].max_lazy,
                  !.good_match = configuration_table[level].good_length,
                  !.nice_match = configuration_table[level].nice_length,
                  !.max_chain_length = configuration_table[level].max_chain]
          ELSE s1
        \* d is what the flush of the block gave
        switched(d) ==
          [s |-> [set_level(d.s) EXCEPT !.strategy = strategy],
           ret |-> IF d.ret = Z_BUF_ERROR /\ Len(d.s.pending) = 0
                   THEN Z_OK ELSE d.ret]
    IN switched(IF params_switch(s, level, strategy)
                THEN deflate(s, Z_BLOCK, stored_cheaper)
                ELSE [s |-> s, ret |-> Z_OK])

(***************************************************************************)
(* upper_bound (deflateBound)                                              *)
(***************************************************************************)
\* the width of std::size_t: 64 or 32 in a build; the arithmetic of
\* upper_bound is kept and the width taken small
SizeBits == 29

\* unsigned arithmetic of SizeBits bits
Wrap(x) == x % (2 ^ SizeBits)

ShiftRight(x, k) == x \div (2 ^ k)

\* an upper_bound that rounds the eighth and the sixty-fourth down
upper_bound_rounded_down(s, sourceLen) ==
  LET complen == Wrap(Wrap(Wrap(sourceLen + ShiftRight(sourceLen, 3))
                           + ShiftRight(sourceLen, 6)) + 5)
      wraplen == 0
  IN IF s.w_bits # 15 \/ s.hash_bits # 8 + 7
     THEN Wrap(complen + wraplen)
     ELSE Wrap(sourceLen + ShiftRight(sourceLen, 12) + ShiftRight(sourceLen, 14)
               + ShiftRight(sourceLen, 25) + 13 - 6 + wraplen)

\* s is the stream, of which upper_bound reads w_bits_ and hash_bits_
upper_bound(s, sourceLen) ==
  LET complen == Wrap(Wrap(Wrap(sourceLen
                                + ShiftRight(Wrap(sourceLen + 7), 3))
                           + ShiftRight(Wrap(sourceLen + 63), 6)) + 5)
      wraplen == 0
  IN IF s.w_bits # 15 \/ s.hash_bits # 8 + 7
     THEN Wrap(complen + wraplen)
     ELSE Wrap(sourceLen + ShiftRight(sourceLen, 12) + ShiftRight(sourceLen, 14)
               + ShiftRight(sourceLen, 25) + 13 - 6 + wraplen)

(***************************************************************************)
(* deflateReset, deflateInit2                                              *)
(***************************************************************************)
lm_init(s) ==
  [CLEAR_HASH(s) EXCEPT
     !.max_lazy_match = configuration_table[s.level].max_lazy,
     !.good_match = configuration_table[s.level].good_length,
     !.nice_match = configuration_table[s.level].nice_length,
     !.max_chain_length = configuration_table[s.level].max_chain,
     !.strstart = 0,
     !.block_start = 0,
     !.lookahead = 0,
     !.insert = 0,
     !.match_length = MIN_MATCH - 1,
     !.prev_length = MIN_MATCH - 1,
     !.match_available = 0,
     !.ins_h = 0]

\* a reset that leaves the status as it is
deflateResetKeep_status_kept(s) ==
  tr_init([s EXCEPT !.total_in = 0, !.total_out = 0,
                    !.pending = <<>>,
                    !.last_flush = Z_NO_FLUSH])

deflateResetKeep(s) ==
  tr_init([s EXCEPT !.total_in = 0, !.total_out = 0,
                    !.pending = <<>>,
                    !.status = BUSY_STATE,
                    !.last_flush = Z_NO_FLUSH])

deflateReset(s) == lm_init(deflateResetKeep(s))

\* the object after deflateInit2(level, windowBits, memLevel, strategy);
\* fill is the content of the freshly allocated buffers
deflateInit2(level, strategy, fill) ==
  deflateReset(
    [window |-> [i \in 0 .. window_size - 1 |-> fill],
     prev |-> [i \in 0 .. w_size - 1 |-> fill],
     head |-> [i \in 0 .. hash_size - 1 |-> fill],
     high_water |-> 0,
     lit_bufsize |-> lit_bufsize, pending_buf_size |-> pending_buf_size,
     level |-> level, strategy |-> strategy,
     max_lazy_match |-> 0, good_match |-> 0, nice_match |-> 0,
     max_chain_length |-> 0,
     strstart |-> 0, block_start |-> 0, lookahead |-> 0, insert |-> 0,
     match_length |-> 0, prev_length |-> 0, match_available |-> 0, ins_h |-> 0,
     match_start |-> 0, prev_match |-> 0,
     tally |-> <<>>, pending |-> <<>>, bi_buf |-> <<>>,
     status |-> BUSY_STATE, last_flush |-> Z_NO_FLUSH,
     next_in |-> <<>>, avail_out |-> 0, out |-> <<>>,
     next_in_null |-> FALSE, null_avail_in |-> 0, next_out_null |-> FALSE,
     total_in |-> 0, total_out |-> 0])

(***************************************************************************)
(* deflateSetDictionary (set_dictionary)                                   *)
(***************************************************************************)
\* the do loop: n strings inserted from str on; it runs under
\* while (lookahead >= MIN_MATCH) and leaves lookahead alone
RECURSIVE dict_insert(_, _, _)
dict_insert(s, str, n) ==
  IF n = 0 \/ s.lookahead < MIN_MATCH THEN s
  ELSE IF n = 1 THEN INSERT_STRING(s, str)
  ELSE dict_insert(dict_insert(s, str, n \div 2), str + (n \div 2),
                   n - (n \div 2))

\* while (s->lookahead_ >= MIN_MATCH)
RECURSIVE dict_loop(_)
dict_loop(s) ==
  IF s.lookahead >= MIN_MATCH
  THEN LET n == s.lookahead - (MIN_MATCH - 1)
           s1 == dict_insert(s, s.strstart, n)
       IN dict_loop(fill_window([s1 EXCEPT !.strstart = @ + n,
                                           !.lookahead = MIN_MATCH - 1]))
  ELSE s

\* a dictionary cut to its first w_size bytes
dict_tail_from_head(dictionary) ==
  IF Len(dictionary) >= w_size THEN SubSeq(dictionary, 1, w_size)
  ELSE dictionary

\* the bytes of the dictionary that go into the window: its tail when it
\* would fill the window
dict_tail(dictionary) ==
  IF Len(dictionary) >= w_size
  THEN SubSeq(dictionary, Len(dictionary) - w_size + 1, Len(dictionary))
  ELSE dictionary

\* an end of set_dictionary that leaves the last bytes in the lookahead
dict_close_lookahead_kept(s, next_in) ==
  [s EXCEPT !.block_start = s.strstart,
            !.insert = s.lookahead,
            !.match_length = MIN_MATCH - 1,
            !.prev_length = MIN_MATCH - 1,
            !.match_available = 0,
            !.next_in = next_in]

\* an end of set_dictionary that leaves the start of the block where it was
dict_close_block_start_kept(s, next_in) ==
  [s EXCEPT !.strstart = @ + s.lookahead,
            !.insert = s.lookahead,
            !.lookahead = 0,
            !.match_length = MIN_MATCH - 1,
            !.prev_length = MIN_MATCH - 1,
            !.match_available = 0,
            !.next_in = next_in]

\* the end of set_dictionary: the bytes not yet hashed leave the lookahead
\* and the caller's input buffer is put back
dict_close(s, next_in) ==
  [s EXCEPT !.strstart = @ + s.lookahead,
            !.block_start = s.strstart + s.lookahead,
            !.insert = s.lookahead,
            !.lookahead = 0,
            !.match_length = MIN_MATCH - 1,
            !.prev_length = MIN_MATCH - 1,
            !.match_available = 0,
            !.next_in = next_in]

deflateSetDictionary(s, dictionary) ==
  IF s.lookahead # 0
  THEN [s |-> s, ret |-> Z_STREAM_ERROR]
  ELSE
    LET s1 == IF Len(dictionary) >= w_size
              THEN [CLEAR_HASH(s) EXCEPT !.strstart = 0, !.block_start = 0,
                                         !.insert = 0]
              ELSE s
        s2 == dict_loop(fill_window([s1 EXCEPT !.next_in = dict_tail(dictionary)]))
    IN [s |-> dict_close(s2, s.next_in), ret |-> Z_OK]

(***************************************************************************)
(* The decoder of the unit stream, from the format: a literal gives its    *)
(* byte, a back-reference copies length bytes from distance back, a stored *)
(* block gives its bytes.                                                  *)
(***************************************************************************)
RECURSIVE copy_match(_, _, _)
copy_match(text, dist, n) ==
  IF n = 0 THEN text
  ELSE copy_match(Append(text, text[Len(text) - dist + 1]), dist, n - 1)

\* mode: "top" between blocks, "codes" in a block of codes, "len" after a
\* stored header, "raw" in stored bytes; last: the open block is final;
\* done: the final block is complete; nblocks, nlast: blocks and final
\* blocks begun; ok: the stream is well formed so far
expand_start ==
  [mode |-> "top", left |-> 0, text |-> <<>>, ok |-> TRUE, last |-> 0,
   done |-> FALSE, nblocks |-> 0, nlast |-> 0]

expand_unit(st, u) ==
  IF ~st.ok THEN st
  ELSE IF st.mode = "top"
  THEN IF st.done THEN [st EXCEPT !.ok = FALSE]
       ELSE IF u[1] \in {"blk", "aln"}
       THEN [st EXCEPT !.mode = "codes", !.last = u[2],
                       !.nblocks = @ + 1, !.nlast = @ + u[2]]
       ELSE IF u[1] = "sto"
       THEN [st EXCEPT !.mode = "len", !.last = u[2],
                       !.nblocks = @ + 1, !.nlast = @ + u[2]]
       ELSE [st EXCEPT !.ok = FALSE]
  ELSE IF st.mode = "codes"
  THEN IF u[1] = "lit" THEN [st EXCEPT !.text = Append(@, u[2])]
       ELSE IF u[1] = "ref"
       THEN IF u[2] >= 1 /\ u[2] <= Len(st.text)
            THEN [st EXCEPT !.text = copy_match(@, u[2], u[3] + MIN_MATCH)]
            ELSE [st EXCEPT !.ok = FALSE]
       ELSE IF u[1] = "eob"
       THEN [st EXCEPT !.mode = "top", !.done = (st.last = 1)]
       ELSE [st EXCEPT !.ok = FALSE]
  ELSE IF st.mode = "len"
  THEN IF u[1] = "len" /\ u[3] = 65535 - u[2]
       THEN IF u[2] = 0
            THEN [st EXCEPT !.mode = "top", !.done = (st.last = 1)]
            ELSE [st EXCEPT !.mode = "raw", !.left = u[2]]
       ELSE [st EXCEPT !.ok = FALSE]
  ELSE IF u[1] = "raw"
       THEN IF st.left = 1
            THEN [st EXCEPT !.text = Append(@, u[2]), !.left = 0,
                            !.mode = "top", !.done = (st.last = 1)]
            ELSE [st EXCEPT !.text = Append(@, u[2]), !.left = @ - 1]
       ELSE [st EXCEPT !.ok = FALSE]

\* units i .. j, split in halves to keep the evaluation shallow
RECURSIVE expand_from(_, _, _, _)
expand_from(units, i, j, st) ==
  IF ~st.ok \/ i > j THEN st
  ELSE IF i = j THEN expand_unit(st, units[i])
  ELSE LET m == (i + j) \div 2
       IN expand_from(units, m + 1, j, expand_from(units, i, m, st))

Expand(units) == expand_from(units, 1, Len(units), expand_start)

\* the decoder primed with a history
ExpandWith(history, units) ==
  expand_from(units, 1, Len(units), [expand_start EXCEPT !.text = history])

(***************************************************************************)
(* The caller                                                              *)
(***************************************************************************)
VARIABLES
  strm,     \* the deflate_stream object with the caller's buffers
  todo,     \* input the caller has not yet put into next_in
  given,    \* input put into next_in since the last reset
  call,     \* the last call: operation, arguments, return value
  ended,    \* a write has returned stream_end since the last reset
  full_at,  \* units emitted when the last full flush completed, -1 if none
  cfg,      \* what the caller of this session may do (fixed by Init)
  calls,    \* calls made, continuations of a stalled call not counted
  dict,     \* the bytes of the last dictionary the stream retains
  twin      \* <<t>>: a second stream t that gets the same calls; else <<>>

vars == <<strm, todo, given, call, ended, full_at, cfg, calls, dict, twin>>

RECURSIVE Repeat(_, _)
Repeat(p, n) == IF n = 0 THEN <<>> ELSE p \o Repeat(p, n - 1)

IsPrefix(a, b) == Len(a) <= Len(b) /\ SubSeq(b, 1, Len(a)) = a

\* repetitions of the pattern in the long input: enough to slide the window
LongReps == 14
\* an output buffer no call fills
BigOut == 200
\* calls explored per session (continuations of a stalled call are free)
MaxCalls == 3

\* two halves with a run each, the second a copy of the first
ShortText == <<0, 1, 1, 1, 1, 0, 1, 1, 1, 1>>
\* a text that starts with literals and repeats at distance 3
MixText == <<0, 1, 1, 0, 1, 1, 0, 1>>
LongText == Repeat(<<1, 0, 0, 1, 1>>, LongReps)

\* inputs: empty, a single byte, a run, a repetition at distance 3, a text
\* with matches of several lengths, and one long enough to slide the window
Texts ==
  { <<>>, <<1>>,
    <<1, 1, 1, 1, 1, 1>>,
    MixText,
    <<1, 0, 0, 1, 0, 0, 0, 1, 0, 0, 0, 0, 0, 0, 0, 0, 0, 0, 1>>,
    LongText }

Levels == 0 .. 9
Strategies == {Z_DEFAULT_STRATEGY, Z_FILTERED, Z_HUFFMAN_ONLY, Z_RLE, Z_FIXED}
FlushModes == Z_NO_FLUSH .. Z_BLOCK

\* one level and strategy per engine
EngineParams ==
  { <<0, Z_DEFAULT_STRATEGY>>, <<1, Z_DEFAULT_STRATEGY>>, <<6, Z_DEFAULT_STRATEGY>>,
    <<6, Z_RLE>>, <<6, Z_HUFFMAN_ONLY>> }

\* a scenario: the text, the sizes of the chunks it is written in, the
\* output space offered on a call, the flush modes used, the level and
\* strategy of the stream, those params may switch to, the number of calls
Scenario(text, chunks, outs, flushes, params, switch, budget) ==
  [text |-> text, chunks |-> chunks, outs |-> outs, flushes |-> flushes,
   params |-> params, switch |-> switch, budget |-> budget]

\* one text whole or in halves, with or without output space, every flush
\* mode, on every engine
Scenarios ==
  { Scenario(ShortText, {0, 5, 10}, {0, BigOut}, FlushModes, p, {}, MaxCalls) :
      p \in EngineParams }

\* one text in chunks with output buffers that stall, on every engine
StallScenarios ==
  { Scenario(ShortText, {0, 3, 10}, {1, 2, BigOut},
             {Z_NO_FLUSH, Z_SYNC_FLUSH, Z_FINISH}, p, {}, MaxCalls) :
      p \in EngineParams }

\* full flushes between the halves of the text, on the engines that match
FullScenarios ==
  { Scenario(ShortText, {0, 5, 10}, {1, BigOut},
             {Z_NO_FLUSH, Z_FULL_FLUSH, Z_FINISH}, p, {}, MaxCalls) :
      p \in {<<1, Z_DEFAULT_STRATEGY>>, <<6, Z_DEFAULT_STRATEGY>>, <<6, Z_RLE>>} }

\* a stream that starts on the fast or on the lazy engine and is switched
\* by params
ParamsScenarios ==
  { Scenario(MixText, {0, 4, 8}, {1, BigOut}, {Z_NO_FLUSH, Z_FINISH}, p,
             {<<9, Z_DEFAULT_STRATEGY>>, <<1, Z_DEFAULT_STRATEGY>>,
              <<0, Z_DEFAULT_STRATEGY>>, <<6, Z_RLE>>},
             MaxCalls) :
      p \in {<<1, Z_DEFAULT_STRATEGY>>, <<6, Z_DEFAULT_STRATEGY>>} }

\* every level and strategy on every text, written whole or in two halves
GridScenarios ==
  { Scenario(t, {(Len(t) + 1) \div 2, Len(t)}, {BigOut}, FlushModes, p, {},
             MaxCalls - 1) :
      t \in Texts, p \in Levels \X Strategies }

\* flush modes a careless caller passes: two out of range, two valid
ArgFlushes == {-1, Z_NO_FLUSH, Z_FINISH, Z_BLOCK + 1}

\* one text whole or in halves on every engine, for callers that pass bad
\* arguments
ArgsScenarios ==
  { Scenario(ShortText, {0, 5, 10}, {0, BigOut}, {Z_NO_FLUSH, Z_FINISH}, p, {},
             MaxCalls) :
      p \in EngineParams }

\* the long dictionary: one pattern more than the window holds
LongDict == Repeat(<<1, 1, 0, 1, 0>>, (w_size \div 5) + 1)

\* dictionaries: empty, shorter than a match, a few bytes, longer than the
\* window
Dictionaries == { <<>>, <<0, 1>>, <<0, 1, 1, 0, 1>>, LongDict }

\* a text written whole or in halves after a dictionary, on every engine,
\* and a text long enough to slide the window on the engines that match
DictScenarios ==
  { Scenario(MixText, {4, 8}, {BigOut}, {Z_NO_FLUSH, Z_SYNC_FLUSH, Z_FINISH},
             p, {}, MaxCalls) :
      p \in EngineParams }
  \cup
  { Scenario(LongText, {Len(LongText)}, {BigOut}, {Z_FINISH}, p, {},
             MaxCalls - 1) :
      p \in {<<1, Z_DEFAULT_STRATEGY>>, <<6, Z_DEFAULT_STRATEGY>>} }

\* a dictionary offered at any time between the writes of a text
DictLateScenarios ==
  { Scenario(MixText, {4, 8}, {BigOut}, {Z_NO_FLUSH, Z_SYNC_FLUSH, Z_FINISH},
             p, {}, MaxCalls) :
      p \in EngineParams }

\* a text that ends with the start of two earlier strings, 0110 and 0111
EndText == <<1, 0, 1, 1, 0, 0, 1, 1, 1, 0, 1, 1>>
\* a run that leaves ones in the window where EndText ends, then EndText
TwinText == Repeat(<<1>>, Len(EndText) + 1) \o EndText

\* a text written in halves or whole, and a run followed by EndText, with
\* a reset in between, on every engine
TwinScenarios ==
  { Scenario(ShortText, {5, 10}, {BigOut}, {Z_NO_FLUSH, Z_SYNC_FLUSH, Z_FINISH},
             p, {}, MaxCalls + 1) :
      p \in EngineParams }
  \cup
  { Scenario(TwinText, {Len(EndText), Len(EndText) + 1}, {BigOut},
             {Z_NO_FLUSH, Z_FINISH}, p, {}, MaxCalls + 1) :
      p \in EngineParams }

no_call ==
  [op |-> "init", flush |-> 0, ret |-> 0, avail_in |-> 0, avail_out |-> 0,
   switch |-> FALSE]

InitWith(scenarios) ==
  /\ cfg \in scenarios
  /\ strm = deflateInit2(cfg.params[1], cfg.params[2], 0)
  /\ todo = cfg.text
  /\ given = <<>>
  /\ call = no_call
  /\ ended = FALSE
  /\ full_at = -1
  /\ calls = 0
  /\ dict = <<>>
  /\ twin = <<>>

Init == InitWith(Scenarios)

InitStall == InitWith(StallScenarios)

InitFull == InitWith(FullScenarios)

InitParams == InitWith(ParamsScenarios)

\* a stream that starts on an engine that does not insert strings (stored,
\* huffman, rle) and is switched by params to one that searches
SwitchScenarios ==
  { Scenario(ShortText, {Len(ShortText)}, {1, BigOut},
             {Z_NO_FLUSH, Z_SYNC_FLUSH, Z_FINISH}, p,
             {<<1, Z_DEFAULT_STRATEGY>>, <<6, Z_DEFAULT_STRATEGY>>},
             MaxCalls) :
      p \in {<<0, Z_DEFAULT_STRATEGY>>, <<6, Z_RLE>>, <<6, Z_HUFFMAN_ONLY>>} }

InitSwitch == InitWith(SwitchScenarios)

InitGrid == InitWith(GridScenarios)

InitArgs == InitWith(ArgsScenarios)

\* the same session on two streams: one whose buffers were allocated full
\* of zeros, one whose buffers were allocated full of ones
InitTwin ==
  /\ cfg \in TwinScenarios
  /\ strm = deflateInit2(cfg.params[1], cfg.params[2], 0)
  /\ twin = <<deflateInit2(cfg.params[1], cfg.params[2], 1)>>
  /\ todo = cfg.text
  /\ given = <<>>
  /\ call = no_call
  /\ ended = FALSE
  /\ full_at = -1
  /\ calls = 0
  /\ dict = <<>>

\* the output space of a caller that finishes a stream byte by byte
FinishOuts == {1, 2}

\* every text on every engine, written whole with finish
FinishScenarios ==
  { Scenario(t, {Len(t)}, FinishOuts, {Z_FINISH}, p, {}, 0) :
      t \in Texts \ {LongText}, p \in EngineParams }

InitFinish == InitWith(FinishScenarios)

\* streams that are finished and then reset, and streams that are reset at
\* any point, also with output pending, on every engine
ResetScenarios ==
  { Scenario(ShortText, {5}, {BigOut}, {Z_FINISH}, p, {}, MaxCalls) :
      p \in EngineParams }
  \cup
  { Scenario(ShortText, {3, 5}, {1, BigOut},
             {Z_NO_FLUSH, Z_SYNC_FLUSH, Z_FINISH}, p, {}, MaxCalls) :
      p \in EngineParams }

\* a stream that is reused after reset, next to one that is new each time
InitReset ==
  /\ cfg \in ResetScenarios
  /\ strm = deflateInit2(cfg.params[1], cfg.params[2], 0)
  /\ twin = <<deflateInit2(cfg.params[1], cfg.params[2], 1)>>
  /\ todo = cfg.text
  /\ given = <<>>
  /\ call = no_call
  /\ ended = FALSE
  /\ full_at = -1
  /\ calls = 0
  /\ dict = <<>>

\* the window and memory settings reset accepts: windowBits 9 .. 15 and
\* memLevel 1 .. 9, of which hash_bits is memLevel + 7
BoundConfigs ==
  { [w_bits |-> wb, hash_bits |-> ml + 7] : wb \in 9 .. 15, ml \in 1 .. 9 }

\* source lengths: around the steps of the roundings and of the shifts,
\* and around the largest value of std::size_t
SourceLens ==
  { 0, 1, 7, 8, 9, 63, 64, 65, 4095, 4096, 16383, 16384,
    2 ^ 25 - 1, 2 ^ 25, 2 ^ 25 + 2 ^ 14 + 2 ^ 12, 2 ^ (SizeBits - 1),
    2 ^ SizeBits - 2 ^ (SizeBits - 3), 2 ^ SizeBits - 2 ^ (SizeBits - 11),
    2 ^ SizeBits - 64, 2 ^ SizeBits - 63, 2 ^ SizeBits - 8,
    2 ^ SizeBits - 7, 2 ^ SizeBits - 1 }

\* a stream of any setting, of which only the setting matters
InitBound ==
  /\ strm \in BoundConfigs
  /\ cfg = Scenario(<<>>, {}, {}, {}, <<6, Z_DEFAULT_STRATEGY>>, {}, 0)
  /\ todo = <<>>
  /\ given = <<>>
  /\ call = no_call
  /\ ended = FALSE
  /\ full_at = -1
  /\ calls = 0
  /\ dict = <<>>
  /\ twin = <<>>

InitDict == InitWith(DictScenarios)

InitDictLate == InitWith(DictLateScenarios)

\* everything emitted so far, delivered or not
Emitted == strm.out \o strm.pending \o strm.bi_buf

\* the call repeats a call that left output pending and can only drain it:
\* same flush mode, no new input, no more output space than is pending
Continuation(flush, n, avail_out) ==
  /\ call.op = "write" /\ call.ret = Z_OK /\ call.flush = flush
  /\ strm.last_flush = -1
  /\ n = 0 /\ avail_out > 0 /\ avail_out <= Len(strm.pending)

\* the caller adds n more bytes of input, offers avail_out bytes of output
\* space and calls write(flush)
Write(flush, n, avail_out, stored_cheaper) ==
  LET k == Min(n, Len(todo))
      chunk == SubSeq(todo, 1, k)
      s0 == [strm EXCEPT !.next_in = @ \o chunk, !.avail_out = avail_out,
                         !.next_in_null = FALSE, !.null_avail_in = 0,
                         !.next_out_null = FALSE]
      free == Continuation(flush, n, avail_out)
      \* d is what the call gives
      Return(d) ==
        /\ strm' = d.s
        /\ todo' = SubSeq(todo, k + 1, Len(todo))
        /\ given' = given \o chunk
        /\ call' = [op |-> "write", flush |-> flush, ret |-> d.ret,
                    avail_in |-> Len(s0.next_in), avail_out |-> avail_out,
                    switch |-> FALSE]
        /\ ended' = (ended \/ d.ret = Z_STREAM_END)
        /\ full_at' = IF flush = Z_FULL_FLUSH /\ d.ret = Z_OK
                         /\ d.s.avail_out > 0
                      THEN Len(d.s.out \o d.s.pending \o d.s.bi_buf)
                      ELSE full_at
        /\ calls' = IF free THEN calls ELSE calls + 1
        /\ twin' = IF twin = <<>> THEN twin
                   ELSE <<deflate([twin[1] EXCEPT !.next_in = @ \o chunk,
                                                  !.avail_out = avail_out],
                                  flush, stored_cheaper).s>>
        /\ UNCHANGED <<cfg, dict>>
  IN /\ free \/ calls < cfg.budget
     /\ Return(deflate(s0, flush, stored_cheaper))

\* the caller supplies what is left of the input, offers avail_out bytes of
\* output space and calls write(finish); the caller does so as long as it
\* likes, so calls keeps no more than the parity of the calls made
WriteFinish(avail_out, stored_cheaper) ==
  LET s0 == [strm EXCEPT !.next_in = @ \o todo, !.avail_out = avail_out,
                         !.next_in_null = FALSE, !.null_avail_in = 0,
                         !.next_out_null = FALSE]
      \* d is what the call gives
      Return(d) ==
        /\ strm' = d.s
        /\ todo' = <<>>
        /\ given' = given \o todo
        /\ call' = [op |-> "write", flush |-> Z_FINISH, ret |-> d.ret,
                    avail_in |-> Len(s0.next_in), avail_out |-> avail_out,
                    switch |-> FALSE]
        /\ ended' = (ended \/ d.ret = Z_STREAM_END)
        /\ calls' = 1 - calls
        /\ UNCHANGED <<full_at, cfg, dict, twin>>
  IN Return(deflate(s0, Z_FINISH, stored_cheaper))

\* the caller resets the stream and starts a new output
Reset ==
  /\ calls < cfg.budget
  /\ call.op # "reset"
  /\ strm' = [deflateReset(strm) EXCEPT !.next_in = <<>>, !.out = <<>>,
                                        !.avail_out = 0,
                                        !.next_in_null = FALSE,
                                        !.null_avail_in = 0,
                                        !.next_out_null = FALSE]
  /\ given' = <<>>
  /\ call' = [no_call EXCEPT !.op = "reset"]
  /\ ended' = FALSE
  /\ full_at' = -1
  /\ calls' = calls + 1
  /\ dict' = <<>>
  /\ twin' = IF twin = <<>> THEN twin
             ELSE <<deflateInit2(strm.level, strm.strategy, 1)>>
  /\ UNCHANGED <<todo, cfg>>

\* the caller offers avail_out bytes of output space and calls
\* params(level, strategy)
Params(level, strategy, avail_out, stored_cheaper) ==
  LET s0 == [strm EXCEPT !.avail_out = avail_out,
                         !.next_in_null = FALSE, !.null_avail_in = 0,
                         !.next_out_null = FALSE]
      \* d is what the call gives
      Return(d) ==
        /\ strm' = d.s
        /\ call' = [op |-> "params", flush |-> Z_BLOCK, ret |-> d.ret,
                    avail_in |-> Len(s0.next_in), avail_out |-> avail_out,
                    switch |-> params_switch(s0, level, strategy)]
        /\ calls' = calls + 1
        /\ UNCHANGED <<todo, given, ended, full_at, cfg, dict, twin>>
  IN /\ calls < cfg.budget
     /\ Return(deflateParams(s0, level, strategy, stored_cheaper))

\* the caller calls write(flush) with a null output buffer, or with a null
\* input buffer and the count null_avail_in, or with a flush mode out of
\* range; a caller that passes a null input buffer has no input left over
WriteArgs(flush, out_null, in_null, null_avail_in, avail_out, stored_cheaper) ==
  LET s0 == [strm EXCEPT !.avail_out = avail_out,
                         !.next_in_null = in_null,
                         !.null_avail_in = IF in_null THEN null_avail_in ELSE 0,
                         !.next_out_null = out_null]
      \* d is what the call gives
      Return(d) ==
        /\ strm' = d.s
        /\ call' = [op |-> "write", flush |-> flush, ret |-> d.ret,
                    avail_in |-> avail_in(s0), avail_out |-> avail_out,
                    switch |-> FALSE]
        /\ ended' = (ended \/ d.ret = Z_STREAM_END)
        /\ calls' = calls + 1
        /\ UNCHANGED <<todo, given, full_at, cfg, dict, twin>>
  IN /\ calls < cfg.budget
     /\ out_null \/ in_null \/ flush \notin FlushModes
     /\ in_null => Len(strm.next_in) = 0
     /\ Return(deflate(s0, flush, stored_cheaper))

\* the caller calls set_dictionary(dictionary); call.avail_in records the
\* length of the dictionary
SetDictionary(dictionary) ==
  LET k == Min(Len(dictionary), w_size)
      \* d is what the call gives
      Return(d) ==
        /\ strm' = d.s
        /\ call' = [op |-> "dict", flush |-> 0, ret |-> d.ret,
                    avail_in |-> Len(dictionary), avail_out |-> strm.avail_out,
                    switch |-> FALSE]
        /\ dict' = IF d.ret = Z_OK
                   THEN SubSeq(dictionary, Len(dictionary) - k + 1,
                               Len(dictionary))
                   ELSE dict
        /\ calls' = IF call.op \in {"init", "reset"} THEN calls ELSE calls + 1
        /\ UNCHANGED <<todo, given, ended, full_at, cfg, twin>>
  IN /\ calls < cfg.budget
     /\ Return(deflateSetDictionary(strm, dictionary))

Next ==
  \/ \E flush \in cfg.flushes, n \in cfg.chunks, avail_out \in cfg.outs,
        stored_cheaper \in BOOLEAN :
       Write(flush, n, avail_out, stored_cheaper)
  \/ Reset

Spec == Init /\ [][Next]_vars

NextParams ==
  \/ \E flush \in cfg.flushes, n \in cfg.chunks, avail_out \in cfg.outs,
        stored_cheaper \in BOOLEAN :
       Write(flush, n, avail_out, stored_cheaper)
  \/ \E p \in cfg.switch, avail_out \in cfg.outs, stored_cheaper \in BOOLEAN :
       Params(p[1], p[2], avail_out, stored_cheaper)
  \/ Reset

SpecParams == InitParams /\ [][NextParams]_vars

SpecSwitch == InitSwitch /\ [][NextParams]_vars

NextArgs ==
  \/ \E flush \in cfg.flushes, n \in cfg.chunks, avail_out \in cfg.outs,
        stored_cheaper \in BOOLEAN :
       Write(flush, n, avail_out, stored_cheaper)
  \/ \E flush \in ArgFlushes, out_null \in BOOLEAN, in_null \in BOOLEAN,
        null_avail_in \in {0, 1}, avail_out \in cfg.outs,
        stored_cheaper \in BOOLEAN :
       WriteArgs(flush, out_null, in_null, null_avail_in, avail_out,
                 stored_cheaper)
  \/ Reset

SpecArgs == InitArgs /\ [][NextArgs]_vars

\* the dictionary comes before the first write
NextDict ==
  \/ \E flush \in cfg.flushes, n \in cfg.chunks, avail_out \in cfg.outs,
        stored_cheaper \in BOOLEAN :
       Write(flush, n, avail_out, stored_cheaper)
  \/ \E dictionary \in Dictionaries :
       call.op \in {"init", "reset"} /\ SetDictionary(dictionary)
  \/ Reset

SpecDict == InitDict /\ [][NextDict]_vars

\* the dictionary comes at any time
NextDictLate ==
  \/ \E flush \in cfg.flushes, n \in cfg.chunks, avail_out \in cfg.outs,
        stored_cheaper \in BOOLEAN :
       Write(flush, n, avail_out, stored_cheaper)
  \/ \E dictionary \in Dictionaries : SetDictionary(dictionary)
  \/ Reset

SpecDictLate == InitDictLate /\ [][NextDictLate]_vars

\* after a reset the second stream is a new one, so that the first works
\* in a window full of the bytes of its last session and the second in a
\* window never written
SpecTwin == InitTwin /\ [][Next]_vars

SpecReset == InitReset /\ [][Next]_vars

\* the caller asks for upper_bound(sourceLen); call.avail_in records
\* sourceLen and call.ret the result
UpperBound(sourceLen) ==
  /\ call' = [op |-> "upper_bound", flush |-> 0,
              ret |-> upper_bound(strm, sourceLen),
              avail_in |-> sourceLen, avail_out |-> 0, switch |-> FALSE]
  /\ UNCHANGED <<strm, todo, given, ended, full_at, cfg, calls, dict, twin>>

NextBound == \E sourceLen \in SourceLens : UpperBound(sourceLen)

SpecBound == InitBound /\ [][NextBound]_vars

\* a caller that does nothing but finish
NextFinish ==
  \E avail_out \in cfg.outs, stored_cheaper \in BOOLEAN :
    WriteFinish(avail_out, stored_cheaper)

\* one more call has been made
Called == calls' = 1 - calls

\* the caller keeps calling: a call is always possible, and every step
\* that changes calls is a call
SpecFinish == InitFinish /\ [][NextFinish]_vars /\ WF_calls(Called)

SpecStall == InitStall /\ [][Next]_vars

SpecFull == InitFull /\ [][Next]_vars

SpecGrid == InitGrid /\ [][Next]_vars

(***************************************************************************)
(* deflate seen from inside: a call enters the engine, the engine makes    *)
(* its passes one by one and returns a block_state, and deflate finishes   *)
(* the call.  call.op tells where the call is: "enter" and "pass" inside   *)
(* the loop of the engine, the block_state once the engine has returned.   *)
(***************************************************************************)
\* a text in which a match of three bytes is followed, one byte later, by a
\* longer one
LazyText == <<0, 0, 0, 1, 0, 1, 1, 0, 1, 0, 1>>

\* a text in which the search finds nothing longer than the match it has
RepeatText == <<0, 0, 1, 0, 1, 0, 1, 1, 0, 1, 0, 0, 1, 1, 0, 1>>

PassScenarios ==
  { Scenario(t, {3, Len(t)}, {1, BigOut},
             {Z_NO_FLUSH, Z_SYNC_FLUSH, Z_FINISH}, p, {}, MaxCalls) :
      t \in {ShortText, LazyText, RepeatText},
      p \in EngineParams \cup { <<4, Z_DEFAULT_STRATEGY>>, <<6, Z_FILTERED>> } }

InitPass == InitWith(PassScenarios)

\* the stream as the caller hands it to deflate
offered(chunk, avail_out) ==
  [strm EXCEPT !.next_in = @ \o chunk, !.avail_out = avail_out,
               !.next_in_null = FALSE, !.null_avail_in = 0,
               !.next_out_null = FALSE]

\* deflate reaches the engine: it takes none of the returns that come
\* before and there are blocks to do
engine_called(s, flush) ==
  /\ ~invalid_call(s, flush)
  /\ s.avail_out # 0
  /\ LET s1 == [s EXCEPT !.last_flush = flush]
         s2 == IF Len(s1.pending) # 0 THEN flush_pending(s1) ELSE s1
     IN /\ ~(Len(s1.pending) # 0 /\ s2.avail_out = 0)
        /\ ~(Len(s1.pending) = 0 /\ redundant_flush(s1, flush, s.last_flush))
        /\ ~(s2.status = FINISH_STATE /\ Len(s2.next_in) # 0)
        /\ blocks_to_do(s2, flush)

\* the stream deflate hands to the engine
engine_entry(s, flush) ==
  LET s1 == [s EXCEPT !.last_flush = flush]
  IN IF Len(s1.pending) # 0 THEN flush_pending(s1) ELSE s1

InEngine == call.op \in {"enter", "pass"}

EngineReturned ==
  call.op \in {"need_more", "block_done", "finish_started", "finish_done"}

\* a write that gets as far as the engine
Enter(flush, n, avail_out) ==
  LET k == Min(n, Len(todo))
      chunk == SubSeq(todo, 1, k)
      s0 == offered(chunk, avail_out)
      free == Continuation(flush, n, avail_out)
  IN /\ ~InEngine /\ ~EngineReturned
     /\ free \/ calls < cfg.budget
     /\ engine_called(s0, flush)
     /\ strm' = engine_entry(s0, flush)
     /\ todo' = SubSeq(todo, k + 1, Len(todo))
     /\ given' = given \o chunk
     /\ call' = [op |-> "enter", flush |-> flush, ret |-> Z_OK,
                 avail_in |-> Len(s0.next_in), avail_out |-> avail_out,
                 switch |-> FALSE]
     /\ calls' = IF free THEN calls ELSE calls + 1
     /\ UNCHANGED <<ended, full_at, cfg, dict, twin>>

\* one pass of the loop of the engine
Pass(stored_cheaper) ==
  LET Passed(e) ==
        /\ strm' = e.s
        /\ call' = [call EXCEPT !.op = IF e.r = "continue" THEN "pass" ELSE e.r]
  IN /\ InEngine
     /\ Passed(engine_step(strm, call.flush, stored_cheaper))
     /\ UNCHANGED <<todo, given, ended, full_at, cfg, calls, dict, twin>>

\* the engine has returned and deflate finishes the call
Leave ==
  LET Return(d) ==
        /\ strm' = d.s
        /\ call' = [call EXCEPT !.op = "write", !.ret = d.ret]
        /\ ended' = (ended \/ d.ret = Z_STREAM_END)
  IN /\ EngineReturned
     /\ Return(deflate_after([s |-> strm, r |-> call.op], call.flush))
     /\ UNCHANGED <<todo, given, full_at, cfg, calls, dict, twin>>

\* a write that returns without calling the engine
Direct(flush, n, avail_out) ==
  /\ ~InEngine /\ ~EngineReturned
  /\ ~engine_called(offered(SubSeq(todo, 1, Min(n, Len(todo))), avail_out),
                    flush)
  /\ Write(flush, n, avail_out, FALSE)

NextPass ==
  \/ \E flush \in cfg.flushes, n \in cfg.chunks, avail_out \in cfg.outs :
       Enter(flush, n, avail_out)
  \/ \E stored_cheaper \in BOOLEAN : Pass(stored_cheaper)
  \/ Leave
  \/ \E flush \in cfg.flushes, n \in cfg.chunks, avail_out \in cfg.outs :
       Direct(flush, n, avail_out)

SpecPass == InitPass /\ [][NextPass]_vars

\* a run longer than the window
RunText == [i \in 1 .. 5 * LongReps |-> 0]

\* texts longer than the window, so that fill_window slides, written whole
\* or after a first chunk that ends a block just below the middle of the
\* window (the slide then finds a block open that started in the lower half),
\* into output buffers that stall
SlideScenarios ==
  { Scenario(t, {w_size - 1, Len(t)}, {7, BigOut},
             {Z_NO_FLUSH, Z_SYNC_FLUSH, Z_FINISH}, p, {}, MaxCalls) :
      t \in {LongText, RunText},
      p \in EngineParams \cup {<<5, Z_DEFAULT_STRATEGY>>} }

InitSlide == InitWith(SlideScenarios)

\* in these runs the trees subsystem finds a stored block cheaper when the
\* tokens tallied before the pass are all literals, and when the block
\* started before the window (where the engine has no bytes to hand over)
LiteralsOnly ==
  \/ \A i \in 1 .. Len(strm.tally) : strm.tally[i][1] = 0
  \/ strm.block_start < 0

NextSlide ==
  \/ \E flush \in cfg.flushes, n \in cfg.chunks, avail_out \in cfg.outs :
       Enter(flush, n, avail_out)
  \/ Pass(LiteralsOnly)
  \/ Leave
  \/ \E flush \in cfg.flushes, n \in cfg.chunks, avail_out \in cfg.outs :
       Direct(flush, n, avail_out)

SpecSlide == InitSlide /\ [][NextSlide]_vars

\* every row of the level table that searches, on texts with matches of
\* several lengths and on a run, written whole or in parts
LevelScenarios ==
  { Scenario(t, {7, w_size - 1, Len(t)}, {BigOut},
             {Z_NO_FLUSH, Z_SYNC_FLUSH, Z_FINISH}, <<l, g>>, {}, MaxCalls) :
      t \in {LazyText, RepeatText, RunText}, l \in 1 .. 9,
      g \in {Z_DEFAULT_STRATEGY, Z_FILTERED} }

InitLevels == InitWith(LevelScenarios)

SpecLevels == InitLevels /\ [][NextSlide]_vars

\* a memLevel two higher: four times the tally slots and the pending buffer
\* (lit_bufsize = 1 << (memLevel + 6), pending_buf_size = 4 * lit_bufsize), so
\* that a block of long matches spans more than the window; the hash table
\* is left at its size, which bears on the matches found, not on the blocks
deflateInit2_deep(level, strategy, fill) ==
  [deflateInit2(level, strategy, fill) EXCEPT
     !.lit_bufsize = 4 * lit_bufsize,
     !.pending_buf_size = 4 * pending_buf_size]

\* texts of twice the length, so that the window slides more than once
DeepScenarios ==
  { Scenario(t \o t, {w_size - 1, 2 * Len(t)}, {7, BigOut},
             {Z_NO_FLUSH, Z_FINISH}, p, {}, MaxCalls) :
      t \in {LongText, RunText}, p \in EngineParams }

InitDeep ==
  /\ cfg \in DeepScenarios
  /\ strm = deflateInit2_deep(cfg.params[1], cfg.params[2], 0)
  /\ todo = cfg.text
  /\ given = <<>>
  /\ call = no_call
  /\ ended = FALSE
  /\ full_at = -1
  /\ calls = 0
  /\ dict = <<>>
  /\ twin = <<>>

SpecDeep == InitDeep /\ [][NextSlide]_vars

\* a text of four byte values: the string at 14 agrees with the one at 9 in
\* four bytes and with the one at 3 in all but its third byte
StaleText ==
  <<0, 1, 1, 0, 0, 2, 3, 1, 1, 0, 0, 0, 3, 3, 0, 0, 0, 3, 1, 1>>

\* runs of several lengths
RunsText == <<0, 1, 1, 1, 1, 0, 0, 0, 0, 0, 0, 0, 1, 1, 0, 0, 0>>

\* the rle engine on runs shorter and longer than MAX_MATCH, written whole
\* or in parts, also with an output buffer that stalls
RleScenarios ==
  { Scenario(t, {3, w_size - 1, Len(t)}, {1, BigOut},
             {Z_NO_FLUSH, Z_SYNC_FLUSH, Z_FINISH}, <<l, Z_RLE>>, {},
             MaxCalls) :
      t \in {ShortText, RunsText, RunText}, l \in {1, 6} }

InitRle == InitWith(RleScenarios)

SpecRle == InitRle /\ [][NextSlide]_vars

\* a run as long as the window
FullRun == [i \in 1 .. 2 * w_size |-> 0]

\* a stream that starts on an engine that does not insert strings, is given
\* the text with or without output space and is switched by params to an
\* engine that searches; and a stream that starts on an engine that
\* searches, is given a run in two parts and is switched by params, with or
\* without output space, to the stored engine
StaleScenarios ==
  { Scenario(t, {Len(t)}, {1, BigOut}, {Z_NO_FLUSH, Z_SYNC_FLUSH, Z_FINISH},
             p, {<<1, Z_DEFAULT_STRATEGY>>, <<6, Z_DEFAULT_STRATEGY>>},
             MaxCalls) :
      t \in {StaleText, ShortText},
      p \in {<<0, Z_DEFAULT_STRATEGY>>, <<6, Z_RLE>>, <<6, Z_HUFFMAN_ONLY>>} }
  \cup
  { Scenario(FullRun, {w_size - 1, w_size + 1}, {0, BigOut},
             {Z_NO_FLUSH, Z_SYNC_FLUSH}, p, {<<0, Z_DEFAULT_STRATEGY>>},
             MaxCalls + 1) :
      p \in {<<1, Z_DEFAULT_STRATEGY>>, <<6, Z_DEFAULT_STRATEGY>>} }

InitStale == InitWith(StaleScenarios)

\* a call of params between two writes
Switch(level, strategy, avail_out, stored_cheaper) ==
  /\ ~InEngine /\ ~EngineReturned
  /\ Params(level, strategy, avail_out, stored_cheaper)

NextStale ==
  \/ \E flush \in cfg.flushes, n \in cfg.chunks, avail_out \in cfg.outs :
       Enter(flush, n, avail_out)
  \/ Pass(LiteralsOnly)
  \/ Leave
  \/ \E flush \in cfg.flushes, n \in cfg.chunks, avail_out \in cfg.outs :
       Direct(flush, n, avail_out)
  \/ \E p \in cfg.switch, avail_out \in cfg.outs, stored_cheaper \in BOOLEAN :
       Switch(p[1], p[2], avail_out, stored_cheaper)

SpecStale == InitStale /\ [][NextStale]_vars

(***************************************************************************)
(* Properties                                                              *)
(***************************************************************************)
\* input taken from next_in so far
Consumed == SubSeq(given, 1, Len(given) - Len(strm.next_in))

StreamEnd == call.op = "write" /\ call.ret = Z_STREAM_END

HasRef(units) == \E i \in 1 .. Len(units) : units[i][1] = "ref"

\* the empty stored block of a sync or full flush
EmptyStored == << <<"sto", 0, 0>>, <<"len", 0, 65535>> >>

EndsWithMarker(units) ==
  Len(units) >= 2 /\ SubSeq(units, Len(units) - 1, Len(units)) = EmptyStored

\* every token of the input taken so far is in a closed block
BlockClosed ==
  /\ strm.lookahead = 0 /\ strm.tally = <<>> /\ strm.match_available = 0
  /\ LET e == Expand(Emitted) IN e.ok /\ e.mode = "top" /\ e.text = Consumed

\* C1: when write(finish) returns stream_end, expanding the delivered
\* units gives exactly the input written, and the stream is complete
C1_RoundTrip ==
  StreamEnd =>
    LET e == Expand(strm.out)
    IN e.ok /\ e.done /\ e.text = given

\* the whole long text written and finished in one call, through a slide of
\* the window, with back-references in the output
C1_Witness ==
  /\ StreamEnd /\ given = LongText /\ calls = 1
  /\ strm.strstart = Len(LongText) - w_size
  /\ HasRef(strm.out)

\* C2: across write calls, whatever the chunks and the output space, what
\* has been emitted and what has been delivered only grow at the end, the
\* delivered units expand to a prefix of the input written, and to all of
\* it when write returns stream_end
C2_Incremental ==
  [][call'.op = "write" =>
       /\ IsPrefix(strm.out, strm'.out)
       /\ IsPrefix(Emitted, Emitted')
       /\ LET e == Expand(strm'.out)
          IN /\ e.ok
             /\ IsPrefix(e.text, given')
             /\ call'.ret = Z_STREAM_END => e.done /\ e.text = given']_vars

\* stream_end from a call that was offered two bytes of space and no new
\* input: the input came in chunks and the output was drained over re-entries
C2_Witness ==
  /\ StreamEnd /\ call.avail_out = 2 /\ call.avail_in = 0
  /\ given = cfg.text /\ Len(strm.out) > 2
  /\ strm.total_in = Len(given)

\* C3 as stated: after stream_end every further write returns stream_end or
\* buf_error and produces no output
C3_AfterEnd ==
  [][ended /\ call'.op = "write" =>
       /\ call'.ret \in {Z_STREAM_END, Z_BUF_ERROR}
       /\ strm'.out = strm.out /\ strm'.pending = strm.pending
       /\ strm'.total_out = strm.total_out]_vars

\* C3 amended: after stream_end a write with a flush mode other than finish
\* returns stream_error, write(finish) returns buf_error when it is offered
\* no output space or has input and stream_end otherwise, and none of them
\* produces output
C3_AfterEndAmended ==
  [][ended /\ call'.op = "write" =>
       /\ call'.ret = IF call'.flush # Z_FINISH THEN Z_STREAM_ERROR
                      ELSE IF call'.avail_out = 0 \/ call'.avail_in # 0
                           THEN Z_BUF_ERROR
                      ELSE Z_STREAM_END
       /\ strm'.out = strm.out /\ strm'.pending = strm.pending
       /\ strm'.total_out = strm.total_out]_vars

\* a write(finish) with output space and no input on a stream that has
\* ended and has since refused a call
C3_Witness ==
  /\ ended /\ StreamEnd /\ calls = 3
  /\ call.avail_out > 0 /\ Len(strm.out) > 0 /\ given # <<>>

\* C4: write returns stream_end only for finish, with all input taken, the
\* final block complete, nothing pending and output space left; a
\* write(finish) that fills the output buffer returns ok, and the next
\* write(finish), made with no input, returns stream_end if it returns with
\* output space left
C4_StreamEnd ==
  [][call'.op = "write" =>
       /\ call'.ret = Z_STREAM_END =>
            /\ call'.flush = Z_FINISH
            /\ strm'.next_in = <<>> /\ strm'.lookahead = 0
            /\ strm'.tally = <<>>
            /\ strm'.pending = <<>> /\ strm'.bi_buf = <<>>
            /\ strm'.avail_out > 0
            /\ Expand(strm'.out).done
       /\ (call'.flush = Z_FINISH /\ call'.avail_out > 0 /\ strm'.avail_out = 0)
            => call'.ret = Z_OK
       /\ (/\ call.op = "write" /\ call.flush = Z_FINISH /\ call.ret = Z_OK
           /\ call'.flush = Z_FINISH /\ call'.avail_in = 0
           /\ strm'.avail_out > 0)
            => call'.ret = Z_STREAM_END]_vars

\* stream_end from a write(finish) that follows a write(finish) which
\* returned ok with the final block still pending
C4_Witness ==
  /\ StreamEnd /\ call.avail_in = 0 /\ call.avail_out = 2
  /\ strm.avail_out = 1 /\ given = cfg.text

\* C5: at most one block with the last-block flag is ever emitted, no
\* block is begun after it and nothing follows it, at stream_end it is
\* there and complete, and no operation but reset takes status from
\* finish back to busy
C5_OneFinalBlock ==
  [][LET e == Expand(Emitted')
     IN /\ e.ok
        /\ e.nlast <= 1
        /\ e.nlast = 1 => e.last = 1
        /\ StreamEnd' => e.nlast = 1 /\ e.done
        /\ (strm.status = FINISH_STATE /\ strm'.status # FINISH_STATE)
             => call'.op = "reset"
        /\ (Expand(Emitted).done /\ call'.op # "reset")
             => Emitted' = Emitted]_vars

\* a stream that ended after several blocks and was then written to again
C5_Witness ==
  /\ ended /\ call.op = "write" /\ call.ret # Z_STREAM_END
  /\ Expand(Emitted).nblocks > 2 /\ Expand(Emitted).done

SinceFull == SubSeq(Emitted, full_at + 1, Len(Emitted))

\* C7: what is emitted after a completed write(full) expands without the
\* history before it: every back-reference stays within the bytes emitted
\* since the flush, and the bytes are those written since the flush
C7_FullIsolates ==
  full_at >= 0 =>
    LET before == Expand(SubSeq(Emitted, 1, full_at))
        after == Expand(SinceFull)
    IN /\ after.ok
       /\ IsPrefix(before.text \o after.text, given)

\* a back-reference emitted after a full flush by the fast, lazy or rle
\* engine, in a text whose second half repeats the first
C7_Witness ==
  /\ full_at > 0 /\ HasRef(SinceFull) /\ given = ShortText
  /\ Expand(SubSeq(Emitted, 1, full_at)).text = SubSeq(ShortText, 1, 5)

\* C8: when params has switched engines or strategy on a stream that has
\* taken input, all input taken is in a closed block and no match is left
\* over, whatever output space was offered
C8_ParamsClosesBlock ==
  (call.op = "params" /\ call.switch) =>
    BlockClosed /\ strm.match_length < MIN_MATCH

\* the stream's level or strategy is no longer the one it started with
Switched == <<strm.level, strm.strategy>> # cfg.params

\* C9: when a session in which params switched the level or the strategy
\* ends with stream_end, the delivered units expand to the input written
C9_SwitchRoundTrip ==
  (StreamEnd /\ Switched) =>
    LET e == Expand(strm.out)
    IN e.ok /\ e.done /\ e.text = given

\* C10 as stated: a write with no input whose flush mode is not finish and
\* does not outrank the flush mode of the previous call fails with buf_error
C10_RedundantFlush ==
  [][(/\ call.op = "write" /\ call'.op = "write"
      /\ call'.avail_in = 0 /\ call'.flush # Z_FINISH
      /\ RANK(call'.flush) <= RANK(call.flush))
     => call'.ret = Z_BUF_ERROR]_vars

\* C10 amended: on a stream that is not finished, a write with no input
\* whose flush mode is not finish and does not outrank the flush mode of the
\* previous write fails with buf_error, provided the previous write returned
\* with output space left
C10_RedundantFlushAmended ==
  [][(/\ call.op = "write" /\ strm.avail_out > 0
      /\ strm.status # FINISH_STATE
      /\ call'.op = "write"
      /\ call'.avail_in = 0 /\ call'.flush # Z_FINISH
      /\ RANK(call'.flush) <= RANK(call.flush))
     => call'.ret = Z_BUF_ERROR]_vars

\* a sync flush refused after a full flush of the text
C10_Witness ==
  /\ call.op = "write" /\ call.flush = Z_SYNC_FLUSH /\ call.ret = Z_BUF_ERROR
  /\ call.avail_in = 0 /\ call.avail_out > 0
  /\ strm.status = BUSY_STATE /\ strm.last_flush = Z_SYNC_FLUSH
  /\ full_at > 0 /\ given # <<>>

\* C11 as stated: write returns buf_error only with no input, no pending
\* output and a flush mode that does not outrank that of the previous call
C11_BufErrorOnly ==
  [][(call'.op = "write" /\ call'.ret = Z_BUF_ERROR)
     => /\ call'.avail_in = 0
        /\ Len(strm.pending) = 0
        /\ RANK(call'.flush) <= RANK(call.flush)]_vars

\* C11 amended: write returns buf_error only when it is offered no output
\* space, or when the stream has finished and the call supplies input, or
\* when there is no input, no pending output, the flush mode is not finish
\* and it does not outrank the flush mode the stream last recorded
C11_BufErrorOnlyAmended ==
  [][(call'.op = "write" /\ call'.ret = Z_BUF_ERROR)
     => \/ call'.avail_out = 0
        \/ strm.status = FINISH_STATE /\ call'.avail_in # 0
        \/ /\ call'.avail_in = 0
           /\ Len(strm.pending) = 0
           /\ call'.flush # Z_FINISH
           /\ RANK(call'.flush) <= RANK(strm.last_flush)]_vars

\* a write(none) without input refused on a stream that has taken input and
\* was offered output space
C11_Witness ==
  /\ call.op = "write" /\ call.ret = Z_BUF_ERROR /\ call.flush = Z_NO_FLUSH
  /\ call.avail_in = 0 /\ call.avail_out > 0
  /\ strm.status = BUSY_STATE /\ strm.total_in > 0

\* C12: write returns stream_error when the flush mode is out of range,
\* when next_out is null, when next_in is null with avail_in # 0, and when
\* the stream has finished and the flush mode is not finish; such a call
\* takes no input and emits no output
C12_StreamError ==
  [][(/\ call'.op = "write"
      /\ \/ call'.flush \notin FlushModes
         \/ strm'.next_out_null
         \/ strm'.next_in_null /\ call'.avail_in # 0
         \/ strm.status = FINISH_STATE /\ call'.flush # Z_FINISH)
     => /\ call'.ret = Z_STREAM_ERROR
        /\ strm'.total_in = strm.total_in
        /\ strm'.window = strm.window /\ strm'.lookahead = strm.lookahead
        /\ strm'.total_out = strm.total_out /\ strm'.out = strm.out
        /\ Emitted' = Emitted]_vars

\* a write(none) that brings input to a stream that has finished, refused
\* with the input left where it was
C12_Witness ==
  /\ call.op = "write" /\ call.ret = Z_STREAM_ERROR
  /\ call.flush = Z_NO_FLUSH /\ call.avail_in > 0
  /\ ~strm.next_out_null /\ ~strm.next_in_null
  /\ strm.status = FINISH_STATE /\ Len(strm.next_in) = call.avail_in

\* C13: a write that returns ok with the output buffer full leaves
\* last_flush = -1, and the write that follows it with the same flush mode,
\* no input and output space does not fail with buf_error
C13_StallSentinel ==
  [][/\ (call'.op = "write" /\ call'.ret = Z_OK /\ strm'.avail_out = 0)
          => strm'.last_flush = -1
     /\ (/\ call.op = "write" /\ call.ret = Z_OK /\ strm.avail_out = 0
         /\ call'.op = "write" /\ call'.flush = call.flush
         /\ call'.avail_in = 0 /\ call'.avail_out > 0)
          => call'.ret # Z_BUF_ERROR]_vars

\* a sync flush that stalled and whose continuation has drained the last
\* pending byte into the last byte of output space: only the mark is left
\* to tell the next call that the flush is not a repetition
C13_Witness ==
  /\ calls = 1 /\ call.op = "write" /\ call.flush = Z_SYNC_FLUSH
  /\ call.ret = Z_OK /\ call.avail_in = 0 /\ call.avail_out > 0
  /\ strm.avail_out = 0 /\ Len(strm.pending) = 0 /\ strm.last_flush = -1
  /\ given # <<>>

\* C14: a write that returns stream_error or buf_error leaves total_in,
\* total_out, avail_in, avail_out, the window, the tally, the pending output
\* and the output delivered as they were when it was called
C14_FailureAtomic ==
  [][(call'.op = "write" /\ call'.ret \in {Z_STREAM_ERROR, Z_BUF_ERROR})
     => /\ strm'.total_in = strm.total_in
        /\ strm'.total_out = strm.total_out
        /\ Len(strm'.next_in) = call'.avail_in
        /\ strm'.avail_out = call'.avail_out
        /\ strm'.window = strm.window
        /\ strm'.tally = strm.tally
        /\ strm'.pending = strm.pending
        /\ strm'.out = strm.out]_vars

\* C15: once write has consumed input (total_in > 0), set_dictionary fails
\* with stream_error and changes nothing, whatever the lookahead is
C15_DictionaryOnlyAtStart ==
  [][(call'.op = "dict" /\ strm.total_in > 0)
     => call'.ret = Z_STREAM_ERROR /\ strm' = strm]_vars

\* C16: set_dictionary on a freshly initialised or reset stream returns ok,
\* emits nothing, puts the last min(|D|, w_size) bytes of the dictionary at
\* the start of the window, leaves strstart = block_start = min(|D|, w_size),
\* lookahead = 0 and match_available = 0, and gives next_in back as it was
C16_DictionaryInstalled ==
  [][(call'.op = "dict" /\ call.op \in {"init", "reset"})
     => LET k == Min(call'.avail_in, w_size)
        IN /\ call'.ret = Z_OK
           /\ Len(dict') = k
           /\ \A i \in 1 .. k : strm'.window[i - 1] = dict'[i]
           /\ strm'.strstart = k /\ strm'.block_start = k
           /\ strm'.lookahead = 0 /\ strm'.match_available = 0
           /\ strm'.next_in = strm.next_in
           /\ strm'.tally = <<>> /\ Emitted' = <<>>
           /\ strm'.out = strm.out /\ strm'.total_out = strm.total_out]_vars

\* the long dictionary installed after a reset: the window starts with its
\* last w_size bytes
C16_Witness ==
  /\ call.op = "dict" /\ call.ret = Z_OK /\ call.avail_in > w_size
  /\ calls = 1 /\ strm.strstart = w_size /\ Len(dict) = w_size

\* C17: when a session ends with stream_end, the delivered units expand,
\* from a history primed with the retained bytes of the dictionary
\* installed before the first write, to exactly the input written; no
\* back-reference reaches before the start of that history
C17_DictionaryRoundTrip ==
  StreamEnd =>
    LET e == ExpandWith(dict, strm.out)
    IN e.ok /\ e.done /\ e.text = dict \o given

\* a session after the long dictionary whose units do not expand without
\* it: some back-reference reaches into the dictionary
C17_Witness ==
  /\ StreamEnd /\ Len(dict) = w_size /\ given # <<>>
  /\ ~Expand(strm.out).ok

\* C18 as stated: after a non-empty dictionary the delivered units expand
\* from an empty history to something else than the input, or not at all
C18_NeedsDictionary ==
  (StreamEnd /\ dict # <<>>) =>
    LET e == Expand(strm.out)
    IN ~e.ok \/ e.text # given

\* C18 amended: after a non-empty dictionary, expanding the delivered units
\* from an empty history either fails or gives exactly the input, never
\* other bytes; it gives the input on the stored and huff engines, which
\* emit no back-reference
C18_NeedsDictionaryAmended ==
  (StreamEnd /\ dict # <<>>) =>
    LET e == Expand(strm.out)
    IN /\ e.ok => (e.done /\ e.text = given)
       /\ engine_of(strm) \in {"stored", "huff"} => e.ok

\* the text written after the five-byte dictionary, in units that do not
\* expand without it
C18_Witness ==
  /\ StreamEnd /\ dict = <<0, 1, 1, 0, 1>> /\ given = MixText
  /\ ~Expand(strm.out).ok

\* C19: two streams with the same parameters that get the same calls with
\* the same input emit the same units and hold the same tokens, whatever
\* their windows hold beyond the data
C19_Deterministic ==
  twin # <<>> =>
    /\ twin[1].out = strm.out
    /\ twin[1].pending = strm.pending
    /\ twin[1].bi_buf = strm.bi_buf
    /\ twin[1].tally = strm.tally
    /\ twin[1].total_in = strm.total_in
    /\ twin[1].total_out = strm.total_out

\* a session written after a reset and ended with back-references, on two
\* streams whose windows differ beyond the data
C19_Witness ==
  /\ twin # <<>> /\ StreamEnd /\ calls > 2 /\ HasRef(strm.out)
  /\ given = EndText
  /\ twin[1].window[Len(EndText)] # strm.window[Len(EndText)]

\* the stream has ended with all of its output delivered
Finished ==
  /\ StreamEnd /\ strm.status = FINISH_STATE
  /\ Len(strm.next_in) = 0 /\ strm.lookahead = 0
  /\ Len(strm.pending) = 0 /\ Len(strm.bi_buf) = 0

\* C20: a caller that supplies all the input and keeps calling
\* write(finish) with at least one byte of output space gets stream_end
\* in the end, with every engine pass bounded by the input left and the
\* whole stream delivered
C20_FinishLive == <>Finished

\* a stream of more than ten units that ended on a call with one byte of
\* output space
C20_Witness ==
  /\ Finished /\ call.avail_out = 1 /\ Len(given) > Len(MixText)
  /\ strm.total_out > 10 /\ Expand(strm.out).text = given

\* C21: total_in is the number of bytes taken from the caller's input
\* buffer since the last reset, and total_out the number of bytes written
\* to the caller's output buffer
C21_ByteAccounting ==
  /\ strm.total_in = Len(given) - Len(strm.next_in)
  /\ strm.total_out = Len(strm.out)

\* what a write can observe of a stream, apart from the bytes of the
\* window beyond the data and the chains behind the hash heads
Observable(s) ==
  <<s.status, s.last_flush, s.out, s.pending, s.bi_buf, s.tally, s.next_in,
    s.strstart, s.lookahead, s.insert, s.block_start, s.head, s.ins_h,
    s.match_length, s.prev_length, s.match_available,
    s.level, s.strategy, s.max_lazy_match, s.good_match, s.nice_match,
    s.max_chain_length>>

\* C22: reset leaves status busy, last_flush none, nothing pending, an
\* empty tally, strstart, lookahead, insert and block_start 0, empty hash
\* heads, match_length and prev_length 2, match_available 0 and the
\* tunables of the level; from then on the stream emits what a new stream
\* with the same parameters emits for the same calls
C22_ResetFresh ==
  /\ call.op = "reset" =>
       /\ strm.status = BUSY_STATE /\ strm.last_flush = Z_NO_FLUSH
       /\ strm.pending = <<>> /\ strm.bi_buf = <<>> /\ strm.tally = <<>>
       /\ strm.strstart = 0 /\ strm.lookahead = 0 /\ strm.insert = 0
       /\ strm.block_start = 0
       /\ \A i \in 0 .. hash_size - 1 : strm.head[i] = NIL
       /\ strm.match_length = MIN_MATCH - 1 /\ strm.prev_length = MIN_MATCH - 1
       /\ strm.match_available = 0
       /\ strm.max_lazy_match = configuration_table[strm.level].max_lazy
       /\ strm.good_match = configuration_table[strm.level].good_length
       /\ strm.nice_match = configuration_table[strm.level].nice_length
       /\ strm.max_chain_length = configuration_table[strm.level].max_chain
  /\ twin # <<>> => Observable(strm) = Observable(twin[1])

\* a stream of finish-only writes: the first half was written and
\* finished, the stream was reset, and the second half written to the
\* reused stream ended with back-references and expands to the second half
C22_Witness ==
  /\ twin # <<>> /\ cfg.flushes = {Z_FINISH}
  /\ StreamEnd /\ todo = <<>> /\ given = SubSeq(ShortText, 6, 10)
  /\ HasRef(strm.out)
  /\ strm.window # twin[1].window
  /\ Expand(strm.out).text = given

\* ceil(n / d)
CeilDiv(n, d) == (n + d - 1) \div d

\* the value the contract gives for upper_bound(n) on stream s
BoundValue(s, n) ==
  IF s.w_bits = 15 /\ s.hash_bits = 15
  THEN n + (n \div 2 ^ 12) + (n \div 2 ^ 14) + (n \div 2 ^ 25) + 7
  ELSE n + CeilDiv(n, 8) + CeilDiv(n, 64) + 5

OnlyStored(units) ==
  \A i \in 1 .. Len(units) : units[i][1] \in {"sto", "len", "raw"}

\* the bytes of an output of stored blocks: a byte for the header and its
\* padding, four for LEN and NLEN, one per stored byte
StoredBytes(units) ==
  Len(units) + 3 * Cardinality({i \in 1 .. Len(units) : units[i][1] = "len"})

\* C24: once write(finish) has returned stream_end, the bytes written are
\* at most upper_bound(total_in), whatever flushes came before the finish;
\* stated for the stored engine, whose output the block format fixes to
\* the byte
C24_OutputBound ==
  (StreamEnd /\ engine_of(strm) = "stored" /\ OnlyStored(strm.out))
    => StoredBytes(strm.out)
         <= upper_bound([w_bits |-> w_bits, hash_bits |-> hash_bits],
                        strm.total_in)

\* the units a call adds to what was emitted before it
NewUnits == SubSeq(Emitted', Len(Emitted) + 1, Len(Emitted'))

\* empty stored blocks that are not final, and empty static blocks, in units
Markers(units) ==
  Cardinality({i \in 1 .. Len(units) - 1 :
                 SubSeq(units, i, i + 1) = EmptyStored})

Aligns(units) == Cardinality({i \in 1 .. Len(units) : units[i][1] = "aln"})

\* the boundary of a flush mode
Boundary(flush) ==
  IF flush = Z_PARTIAL_FLUSH THEN << <<"aln", 0, 0>>, <<"eob", 0, 0>> >>
  ELSE IF flush \in {Z_SYNC_FLUSH, Z_FULL_FLUSH} THEN EmptyStored
  ELSE <<>>

EndsWith(units, tail) ==
  Len(units) >= Len(tail)
  /\ SubSeq(units, Len(units) - Len(tail) + 1, Len(units)) = tail

\* the tokens of the block of codes whose header is units[i]
TokensAt(units, i) ==
  (CHOOSE j \in i + 1 .. Len(units) :
     units[j][1] = "eob" /\ \A k \in i + 1 .. j - 1 : units[k][1] # "eob")
  - i - 1

\* every block in units was closed by a full tally: a block of codes holds
\* lit_bufsize - 1 tokens, a stored block the bytes of as many tokens
ClosedByTally(units) ==
  \A i \in 1 .. Len(units) :
    /\ units[i][1] = "blk" => TokensAt(units, i) = lit_bufsize - 1
    /\ units[i][1] = "len" => units[i][2] >= lit_bufsize - 1

\* every block in units was closed by the stored engine because it could
\* not grow: it holds max_block_size bytes, or MAX_DIST bytes or more
ClosedBySize(units) ==
  \A i \in 1 .. Len(units) :
    /\ units[i][1] \in {"sto", "len", "raw"}
    /\ units[i][1] = "len" =>
         units[i][2] = max_block_size \/ units[i][2] >= MAX_DIST

\* a write whose flush (block, partial, sync or full) is complete: the
\* units added end with the one boundary of the mode, and a full flush
\* leaves the hash heads empty and the window rewound
FlushBoundaryStep ==
  (/\ call'.op = "write" /\ call'.ret = Z_OK /\ strm'.avail_out > 0
   /\ call'.flush \in {Z_BLOCK, Z_PARTIAL_FLUSH, Z_SYNC_FLUSH, Z_FULL_FLUSH})
  => /\ Markers(NewUnits)
          = (IF call'.flush \in {Z_SYNC_FLUSH, Z_FULL_FLUSH} THEN 1 ELSE 0)
     /\ Aligns(NewUnits) = (IF call'.flush = Z_PARTIAL_FLUSH THEN 1 ELSE 0)
     /\ EndsWith(NewUnits, Boundary(call'.flush))
     /\ call'.flush = Z_FULL_FLUSH =>
          /\ \A i \in 0 .. hash_size - 1 : strm'.head[i] = NIL
          /\ strm'.lookahead = 0 =>
               strm'.strstart = 0 /\ strm'.block_start = 0 /\ strm'.insert = 0

\* C25: a completed flush appends exactly the boundary of its mode
\* (nothing for block, an empty static block for partial, an empty stored
\* block for sync and full, full also emptying the hash heads and
\* rewinding strstart, block_start and insert); a write with flush none
\* appends no boundary and closes a block only when the tally fills
C25_FlushBoundary ==
  [][/\ FlushBoundaryStep
     /\ (call'.op = "write" /\ call'.flush = Z_NO_FLUSH)
          => /\ Markers(NewUnits) = 0 /\ Aligns(NewUnits) = 0
             /\ ClosedByTally(NewUnits)
             \* the stored engine tallies nothing: its tally never fills
             /\ engine_of(strm) = "stored" => NewUnits = <<>>]_vars

\* C25, amended: as C25, but a write with flush none on the stored engine
\* closes a block when the block holds max_block_size bytes or at least
\* MAX_DIST bytes
C25_FlushBoundaryAmended ==
  [][/\ FlushBoundaryStep
     /\ (call'.op = "write" /\ call'.flush = Z_NO_FLUSH)
          => /\ Markers(NewUnits) = 0 /\ Aligns(NewUnits) = 0
             /\ IF engine_of(strm) = "stored"
                THEN ClosedBySize(NewUnits)
                ELSE ClosedByTally(NewUnits)]_vars

\* the first write, with flush none on the stored engine, has closed a
\* block of max_block_size bytes and kept the rest of the input back
C25_Witness ==
  /\ call.op = "write" /\ call.flush = Z_NO_FLUSH /\ call.ret = Z_OK
  /\ engine_of(strm) = "stored" /\ calls = 1
  /\ Len(Emitted) = max_block_size + 2 /\ Emitted[2][2] = max_block_size
  /\ strm.total_in > max_block_size

\* every unit emitted and every token tallied, in order
AllUnits ==
  Emitted \o [i \in 1 .. Len(strm.tally) |-> token_unit(strm.tally[i])]

\* the input bytes a unit stands for
UnitSize(u) ==
  IF u[1] \in {"lit", "raw"} THEN 1
  ELSE IF u[1] = "ref" THEN u[3] + MIN_MATCH
  ELSE 0

\* the input bytes the first i units stand for
RECURSIVE BytesBefore(_, _)
BytesBefore(units, i) ==
  IF i = 0 THEN 0 ELSE UnitSize(units[i]) + BytesBefore(units, i - 1)

\* the back-reference units[i] is a match of the input
ValidRef(units, i) ==
  LET p == BytesBefore(units, i - 1)
      dist == units[i][2]
      len == units[i][3] + MIN_MATCH
  IN /\ len >= MIN_MATCH /\ len <= MAX_MATCH
     /\ dist >= 1 /\ dist <= MAX_DIST /\ dist <= p
     /\ p + len <= strm.total_in
     /\ \A k \in 1 .. len : given[p + k] = given[p + k - dist]

\* C26: every back-reference tallied or emitted has a length of MIN_MATCH
\* to MAX_MATCH and a distance of 1 to MAX_DIST, lies within the bytes
\* read, and its bytes are equal to the bytes distance earlier
C26_TokenValid ==
  \A i \in 1 .. Len(AllUnits) :
    AllUnits[i][1] = "ref" => ValidRef(AllUnits, i)

\* a text longer than the window, written whole on the lazy engine, has
\* ended with the window slid and holds a match of the greatest length
C26_Witness ==
  /\ StreamEnd /\ engine_of(strm) = "slow"
  /\ given = LongText /\ strm.total_in > window_size
  /\ strm.strstart < strm.total_in
  /\ \E i \in 1 .. Len(strm.out) :
       /\ strm.out[i][1] = "ref" /\ strm.out[i][3] + MIN_MATCH = MAX_MATCH
       /\ strm.out[i][2] > 1

\* what the decoder makes of the units emitted and of the tokens tallied,
\* the open block taken as closed
RepresentedBy(s) ==
  Expand(s.out \o s.pending \o s.bi_buf
         \o (IF s.tally = <<>> THEN <<>>
             ELSE << <<"blk", 0, 0>> >>
                  \o [i \in 1 .. Len(s.tally) |-> token_unit(s.tally[i])]
                  \o << <<"eob", 0, 0>> >>))

Represented == RepresentedBy(strm)

\* the literal the lazy engine holds back
Deferred == IF strm.match_available = 1 THEN 1 ELSE 0

\* the bytes the stored engine has taken into the window for a block it
\* has not emitted yet
Buffered ==
  IF engine_of(strm) = "stored" THEN strm.strstart - strm.block_start ELSE 0

SearchAt(s) ==
  LET s1 == IF s.lookahead < MIN_LOOKAHEAD THEN fill_window(s) ELSE s
      ins == s1.lookahead >= MIN_MATCH
      hash_head == IF ins THEN INSERT_HEAD(s1, s1.strstart) ELSE NIL
      s2 == [(IF ins THEN INSERT_STRING(s1, s1.strstart) ELSE s1)
               EXCEPT !.prev_length = s1.match_length,
                      !.prev_match = s1.match_start,
                      !.match_length = MIN_MATCH - 1]
      lm == longest_match(s2, hash_head)
  IN IF hash_head # NIL /\ s2.prev_length < s2.max_lazy_match
        /\ s2.strstart - hash_head >= 0
        /\ s2.strstart - hash_head <= MAX_DIST
     THEN IF lm.len <= 5
             /\ (s2.strategy = Z_FILTERED
                 \/ (lm.len = MIN_MATCH
                     /\ s2.strstart - lm.match_start > TOO_FAR))
          THEN MIN_MATCH - 1 ELSE lm.len
     ELSE MIN_MATCH - 1

\* a pass of the lazy engine
LazyPass == InEngine /\ engine_of(strm) = "slow"

\* the token the pass has tallied, <<>> when the pass closed the block
Tallied ==
  IF Len(strm'.tally) = Len(strm.tally) + 1
  THEN <<strm'.tally[Len(strm'.tally)]>> ELSE <<>>

\* the bytes the pass has added to those the tokens stand for
Advance == Len(RepresentedBy(strm').text) - Len(RepresentedBy(strm).text)

\* the pass decides on a match of MIN_MATCH bytes or more found one byte back
Decides ==
  /\ LazyPass /\ strm.match_available = 1 /\ strm.match_length >= MIN_MATCH
  /\ strm'.total_in - strm'.lookahead # strm.total_in - strm.lookahead

\* the pass emits the match found one byte back
Commits ==
  /\ Advance = strm.match_length
  /\ Tallied \in { <<>>, << <<strm.strstart - 1 - strm.match_start,
                            strm.match_length - MIN_MATCH>> >> }
  /\ strm'.match_available = 0

\* the pass emits the byte one back as a literal and keeps the match it has
\* just found as the candidate
Defers ==
  /\ Advance = 1
  /\ Tallied \in { <<>>, << <<0, given[strm.total_in - strm.lookahead]>> >> }
  /\ strm'.match_available = 1
  /\ strm'.match_length = SearchAt(strm)
  /\ strm'.prev_length = strm.match_length

\* the input has ended with a literal deferred
EndsDeferred ==
  /\ LazyPass /\ strm.match_available = 1
  /\ strm.lookahead = 0 /\ strm.next_in = <<>> /\ call.flush # Z_NO_FLUSH

\* C28: the lazy engine emits a match of L >= 3 bytes found at p - 1 if and
\* only if the match it finds at p is not longer than L, and otherwise emits
\* the byte at p - 1 as a literal and keeps the match at p as the candidate;
\* a literal deferred when the input ends is in the block the engine closes
C28_LazyDecision ==
  [][ /\ Decides =>
           IF SearchAt(strm) <= strm.match_length THEN Commits ELSE Defers
      /\ EndsDeferred =>
           /\ strm'.match_available = 0 /\ strm'.tally = <<>>
           /\ RepresentedBy(strm').ok
           /\ RepresentedBy(strm').text = given ]_vars

\* the lazy engine has just let a longer match displace one of MIN_MATCH
\* bytes or more and has tallied the byte before it as a literal
C28_Witness ==
  /\ call.op = "pass" /\ engine_of(strm) = "slow"
  /\ strm.match_available = 1
  /\ strm.prev_length >= MIN_MATCH /\ strm.match_length > strm.prev_length
  /\ strm.tally # <<>>
  /\ strm.tally[Len(strm.tally)] = <<0, strm.window[strm.strstart - 2]>>

\* the block that carries the last-block flag is out and complete
FinalBlockEmitted ==
  LET e == Expand(Emitted) IN e.ok /\ e.nlast = 1 /\ e.done

\* a pass that finds the input at its end: no lookahead and nothing to read
AtEnd == InEngine /\ strm.lookahead = 0 /\ strm.next_in = <<>>

\* C29: an engine returns need_more only with the output buffer full or
\* with flush = none and no input left, block_done only for a flush that is
\* neither none nor finish with lookahead = 0 and the tally empty,
\* finish_started and finish_done only for finish with the final block
\* emitted, the former with avail_out = 0 and the latter with avail_out > 0;
\* with flush = none the pass that finds the input at its end closes
\* nothing and returns need_more
C29_EngineResults ==
  [][ /\ call'.op = "need_more" =>
           \/ strm'.avail_out = 0
           \/ call'.flush = Z_NO_FLUSH /\ strm'.next_in = <<>>
      /\ call'.op = "block_done" =>
           /\ call'.flush \notin {Z_NO_FLUSH, Z_FINISH}
           /\ strm'.lookahead = 0 /\ strm'.tally = <<>>
      /\ call'.op = "finish_started" =>
           /\ call'.flush = Z_FINISH /\ strm'.avail_out = 0
           /\ LET e == Expand(strm'.out \o strm'.pending \o strm'.bi_buf)
              IN e.ok /\ e.nlast = 1 /\ e.done
      /\ call'.op = "finish_done" =>
           /\ call'.flush = Z_FINISH /\ strm'.avail_out > 0
           /\ LET e == Expand(strm'.out \o strm'.pending \o strm'.bi_buf)
              IN e.ok /\ e.nlast = 1 /\ e.done
      /\ (AtEnd /\ call.flush = Z_NO_FLUSH) =>
           /\ call'.op = "need_more"
           /\ strm' = strm ]_vars

\* the lazy engine has closed the final block into a full output buffer
C29_Witness ==
  /\ call.op = "finish_started" /\ engine_of(strm) = "slow"
  /\ strm.avail_out = 0 /\ FinalBlockEmitted
  /\ HasRef(Emitted) /\ strm.pending # <<>>

\* the boundaries of a flush mode among the units
Boundaries(units, flush) ==
  IF flush = Z_PARTIAL_FLUSH THEN Aligns(units) ELSE Markers(units)

\* a flush request that is not complete although its boundary is out: the
\* write returned ok with the output buffer full
RequestStalled ==
  /\ call.op = "write" /\ call.ret = Z_OK
  /\ call.flush \in {Z_PARTIAL_FLUSH, Z_SYNC_FLUSH, Z_FULL_FLUSH}
  /\ strm.avail_out = 0
  /\ EndsWith(Emitted, Boundary(call.flush))

\* the caller repeats the write with the same flush mode and no new input
Repeats ==
  call'.op = "write" /\ call'.flush = call.flush /\ given' = given

\* C30: within one flush request (a write with flush sync, full or partial
\* repeated with the same mode and no new input until avail_out > 0) at
\* most one boundary is emitted: once it is out, a repeat adds none
C30_OneMarker ==
  [][(RequestStalled /\ Repeats)
       => Boundaries(Emitted', call.flush) = Boundaries(Emitted, call.flush)]_vars

\* C31: the tally never holds lit_bufsize tokens: a pass of an engine
\* appends at most one token, and when that token is the one that fills the
\* tally (lit_bufsize - 1) the same pass flushes the block and empties it
C31_TallyBound ==
  [][ /\ Len(strm'.tally) < lit_bufsize - 1
      /\ InEngine => Len(strm'.tally) <= Len(strm.tally) + 1 ]_vars

\* the lazy engine has tallied a deferred literal as the token that filled
\* the tally, closed the block and gone on with the next byte deferred
C31_Witness ==
  /\ call.op = "pass" /\ engine_of(strm) = "slow"
  /\ strm.tally = <<>> /\ strm.match_available = 1 /\ strm.lookahead > 0
  /\ strm.block_start = strm.strstart - 1
  /\ LET n == Len(Emitted)
     IN /\ n >= lit_bufsize + 1
        /\ Emitted[n][1] = "eob"
        /\ Emitted[n - 1][1] = "lit"
        /\ Emitted[n - lit_bufsize][1] = "blk"

\* a state a caller can observe: no call is inside the engine
BetweenCalls == ~InEngine /\ ~EngineReturned

\* C32 as stated: between calls, for every engine including stored,
\* 0 <= strstart <= W + MAX_DIST and strstart + lookahead <= window_size = 2W
C32_WindowBounds ==
  BetweenCalls =>
    /\ 0 <= strm.strstart
    /\ strm.strstart <= w_size + MAX_DIST
    /\ strm.strstart + strm.lookahead <= window_size

\* C32 amended: between calls 0 <= strstart and strstart + lookahead <=
\* window_size = 2W, so strstart <= 2W; the bound W + MAX_DIST is restored by
\* the next fill_window, which leaves strstart < W + MAX_DIST
C32_WindowBoundsAmended ==
  BetweenCalls =>
    /\ 0 <= strm.strstart
    /\ strm.strstart + strm.lookahead <= window_size
    /\ fill_window(strm).strstart < w_size + MAX_DIST
    /\ fill_window(strm).strstart + fill_window(strm).lookahead <= window_size

\* a write returned because the output buffer filled, with strstart beyond
\* W + MAX_DIST and input still waiting
C32_Witness ==
  /\ call.op = "write" /\ call.ret = Z_OK
  /\ strm.avail_out = 0
  /\ strm.strstart > w_size + MAX_DIST
  /\ strm.next_in # <<>>

\* the headers of stored blocks among the units
StoredCount(units) ==
  Cardinality({i \in 1 .. Len(units) : units[i][1] = "sto"})

\* a pass of an engine that hands the trees subsystem a block gives the
\* window pointer only when block_start >= 0: a pass that emits a stored
\* block started with block_start >= 0
Handed ==
  InEngine /\ StoredCount(Emitted') > StoredCount(Emitted) =>
    strm.block_start >= 0

\* C33 as stated: -W <= block_start <= strstart in every reachable state for
\* every wBits and memLevel, block_start becomes negative only through
\* window slides, and a block is handed to the trees subsystem with a window
\* pointer only when block_start >= 0
C33_BlockStart ==
  [][ /\ 0 - w_size <= strm'.block_start
      /\ strm'.block_start <= strm'.strstart
      /\ strm'.block_start < 0 =>
           strm'.block_start \in {strm.block_start, strm.block_start - w_size}
      /\ Handed ]_vars

\* C33 amended: block_start <= strstart in every reachable state; block_start
\* becomes negative only through window slides, each of which lowers it by
\* exactly W, and it is not bounded by -W: a block that stays open across
\* several slides is as many times W behind; a block is handed to the trees
\* subsystem with a window pointer only when block_start >= 0
C33_BlockStartAmended ==
  [][ /\ strm'.block_start <= strm'.strstart
      /\ strm'.block_start < 0 =>
           strm'.block_start \in {strm.block_start, strm.block_start - w_size}
      /\ Handed ]_vars

\* an engine is about to close, without a window pointer, a block that two
\* slides have left more than W behind the window
C33_Witness ==
  /\ call.op = "pass"
  /\ strm.block_start < 0 - w_size
  /\ tally_full(tr_tally_lit(strm, 0))

\* what fill_window makes of the stream when no input is waiting: the slide,
\* if any, and nothing read
Slid == fill_window([strm EXCEPT !.next_in = <<>>])

\* the bytes at offsets -MAX_DIST .. lookahead - 1 from strstart
Visible(s) ==
  [d \in 0 - MAX_DIST .. s.lookahead - 1 |-> s.window[s.strstart + d]]

\* C34: fill_window slides only when strstart >= W + MAX_DIST; a slide keeps
\* the byte at strstart + d for every -MAX_DIST <= d < lookahead, lowers
\* strstart, match_start and block_start by exactly W, turns every head and
\* prev entry v into v - W if v >= W and into 0 otherwise, and leaves
\* lookahead unchanged
C34_Slide ==
  IF strm.strstart >= w_size + MAX_DIST
  THEN /\ Visible(Slid) = Visible(strm)
       /\ Slid.strstart = strm.strstart - w_size
       /\ Slid.match_start = strm.match_start - w_size
       /\ Slid.block_start = strm.block_start - w_size
       /\ \A i \in 0 .. hash_size - 1 :
            Slid.head[i] = IF strm.head[i] >= w_size
                           THEN strm.head[i] - w_size ELSE 0
       /\ \A i \in 0 .. w_size - 1 :
            Slid.prev[i] = IF strm.prev[i] >= w_size
                           THEN strm.prev[i] - w_size ELSE 0
       /\ Slid.lookahead = strm.lookahead
  ELSE /\ Slid.strstart = strm.strstart
       /\ Slid.match_start = strm.match_start
       /\ Slid.block_start = strm.block_start
       /\ Slid.head = strm.head /\ Slid.prev = strm.prev
       /\ Slid.lookahead = strm.lookahead
       /\ \A i \in 0 .. strm.strstart + strm.lookahead - 1 :
            Slid.window[i] = strm.window[i]

\* an engine is about to fill a window that has to slide, with head entries
\* in both halves of the window and a hash chain that crosses the middle
C34_Witness ==
  /\ InEngine
  /\ strm.strstart >= w_size + MAX_DIST
  /\ strm.lookahead < MIN_LOOKAHEAD
  /\ strm.next_in # <<>>
  /\ \E i \in 0 .. hash_size - 1 : strm.head[i] > w_size
  /\ \E i \in 0 .. hash_size - 1 : strm.head[i] > 0 /\ strm.head[i] < w_size
  /\ \E i \in 0 .. w_size - 1 : strm.prev[i] > w_size
  /\ \E i \in 0 .. w_size - 1 : strm.prev[i] > 0 /\ strm.prev[i] < w_size

\* the hash of the three bytes at p, as UPDATE_HASH accumulates it
Hash3(w, p) == UPDATE_HASH(UPDATE_HASH(w[p], w[p + 1]), w[p + 2])

\* p is met on the walk from cur along prev; the walk goes down
RECURSIVE OnChain(_, _, _, _)
OnChain(s, p, cur, fuel) ==
  \/ cur = p
  \/ /\ cur > p /\ fuel > 0
     /\ OnChain(s, p, s.prev[cur % w_size], fuel - 1)

\* the stream as the engine sees it after the fill_window of its pass
Seen == IF strm.lookahead < MIN_LOOKAHEAD THEN fill_window(strm) ELSE strm

\* the match finder may run in the next pass
FinderMayRun ==
  /\ InEngine
  /\ engine_of(strm) \in {"fast", "slow"}
  /\ Seen.lookahead >= MIN_MATCH

\* every position from lo on within MAX_DIST below strstart is on the chain
\* of its three bytes
Complete(s, lo) ==
  \A p \in 0 .. s.strstart - 1 :
    p >= lo /\ p >= s.strstart - MAX_DIST =>
      OnChain(s, p, s.head[Hash3(s.window, p)], w_size)

InsertingPass ==
  /\ FinderMayRun
  /\ Seen.lookahead >= MIN_LOOKAHEAD
  /\ engine_of(strm) = "fast" =>
       strm'.strstart - Seen.strstart <= strm.max_lazy_match

RECURSIVE SoundChain(_, _, _, _)
SoundChain(s, h, cur, fuel) ==
  \/ cur = NIL
  \/ cur < s.strstart - MAX_DIST
  \/ /\ fuel > 0
     /\ cur + MIN_MATCH <= s.strstart + s.lookahead
     /\ Hash3(s.window, cur) = h
     /\ s.prev[cur % w_size] < cur
     /\ SoundChain(s, h, s.prev[cur % w_size], fuel - 1)

\* every head entry is NIL or a position whose three bytes are in the window
\* and hash to its bucket, and so is every position on the walk from it
Sound(s) ==
  \A h \in 0 .. hash_size - 1 :
    /\ s.head[h] # NIL =>
         /\ s.head[h] + MIN_MATCH <= s.strstart + s.lookahead
         /\ Hash3(s.window, s.head[h]) = h
    /\ SoundChain(s, h, s.head[h], w_size)

\* C36: after any sequence of writes, slides, flushes and engine switches,
\* every non-zero head entry and every position the match finder visits by
\* following prev is a position below strstart + lookahead whose three
\* window bytes hash to the bucket, and each prev step visited leads to a
\* strictly smaller position, so every chain walk ends at 0 or leaves the
\* MAX_DIST range
C36_Sound == Sound(strm)

\* the call of longest_match the next pass of the fast or lazy engine makes:
\* run tells whether it makes one, s is the stream at the call and head the
\* candidate it starts from
SearchPoint ==
  LET slow == engine_of(strm) = "slow"
      \* the lazy engine saves the current match as the previous one
      shift(s2) == IF slow
                   THEN [s2 EXCEPT !.prev_length = s2.match_length,
                                   !.prev_match = s2.match_start,
                                   !.match_length = MIN_MATCH - 1]
                   ELSE s2
      point(s2, hash_head) ==
        [run |-> /\ hash_head # NIL
                 /\ slow => s2.prev_length < s2.max_lazy_match
                 /\ s2.strstart - hash_head >= 0
                 /\ s2.strstart - hash_head <= MAX_DIST,
         s |-> s2, head |-> hash_head]
      insert(s1) ==
        IF s1.lookahead >= MIN_MATCH
        THEN point(shift(INSERT_STRING(s1, s1.strstart)),
                   INSERT_HEAD(s1, s1.strstart))
        ELSE [run |-> FALSE, s |-> s1, head |-> NIL]
  IN IF /\ InEngine /\ engine_of(strm) \in {"fast", "slow"}
        /\ ~(Seen.lookahead < MIN_LOOKAHEAD /\ call.flush = Z_NO_FLUSH)
     THEN insert(Seen)
     ELSE [run |-> FALSE, s |-> strm, head |-> NIL]

\* the number of bytes, MAX_MATCH at most, in which the strings at a and b
\* agree, counted from n on
RECURSIVE CommonPrefix(_, _, _, _)
CommonPrefix(w, a, b, n) ==
  IF n = MAX_MATCH \/ w[a + n] # w[b + n] THEN n
  ELSE CommonPrefix(w, a, b, n + 1)

\* the length of candidate c for the string at strstart
CandidateLen(s, c) == CommonPrefix(s.window, s.strstart, c, 0)

\* the budget the level table gives a search
ChainBudget(s) ==
  IF s.prev_length >= configuration_table[s.level].good_length
  THEN configuration_table[s.level].max_chain \div 4
  ELSE configuration_table[s.level].max_chain

\* the walk stays in range, goes down and keeps to its budget; Nice(i) tells
\* whether the i-th candidate stops the walk
Budgeted(s, seen, Nice(_)) ==
  /\ Len(seen) >= 1 /\ Len(seen) <= ChainBudget(s)
  /\ \A i \in 1 .. Len(seen) :
       seen[i] # NIL /\ seen[i] < s.strstart
       /\ s.strstart - seen[i] <= MAX_DIST
  /\ \A i \in 1 .. Len(seen) - 1 :
       seen[i + 1] < seen[i] /\ ~Nice(i)
  /\ Len(seen) < ChainBudget(s) =>
       \/ Nice(Len(seen))
       \/ s.prev[seen[Len(seen)] % w_size] = NIL
       \/ s.strstart - s.prev[seen[Len(seen)] % w_size] >= MAX_DIST

\* C37 as stated: longest_match examines at most max_chain candidates, at
\* most max_chain / 4 when prev_length >= good_match, always terminates, and
\* stops early as soon as a candidate's length reaches nice_match clamped to
\* lookahead or the chain leaves the MAX_DIST range, for every row of the
\* level table
C37_Budget ==
  SearchPoint.run =>
    LET s == SearchPoint.s
        seen == longest_walk(s, SearchPoint.head).seen
        Nice(i) == CandidateLen(s, seen[i]) >= Min(s.nice_match, s.lookahead)
    IN Budgeted(s, seen, Nice)

\* the best length the walk holds before it examines its i-th candidate
RECURSIVE BestBefore(_, _, _)
BestBefore(s, seen, i) ==
  IF i = 1 THEN s.prev_length
  ELSE LET b == BestBefore(s, seen, i - 1)
           l == CandidateLen(s, seen[i - 1])
       IN IF l > b THEN l ELSE b

\* the length a search finds for candidate c when its best length is best:
\* none unless the strings agree at best, best - 1, 0 and 1, and else the
\* offset, from 3 on and MAX_MATCH at most, of the first difference
FoundLen(s, c, best) ==
  IF /\ s.window[c + best] = s.window[s.strstart + best]
     /\ s.window[c + best - 1] = s.window[s.strstart + best - 1]
     /\ s.window[c] = s.window[s.strstart]
     /\ s.window[c + 1] = s.window[s.strstart + 1]
  THEN CommonPrefix(s.window, s.strstart, c, 3)
  ELSE 0

\* the best length a search that starts from b has after candidates lo to
\* hi, taken in halves; no candidate improves on MAX_MATCH
RECURSIVE FoundOver(_, _, _, _, _)
FoundOver(s, seen, lo, hi, b) ==
  IF lo > hi \/ b >= MAX_MATCH THEN b
  ELSE IF lo = hi
  THEN LET l == FoundLen(s, seen[lo], b)
       IN IF l > b THEN l ELSE b
  ELSE FoundOver(s, seen, (lo + hi) \div 2 + 1, hi,
                 FoundOver(s, seen, lo, (lo + hi) \div 2, b))

\* the best length a search has found before its i-th candidate
FoundBefore(s, seen, i) == FoundOver(s, seen, 1, i - 1, s.prev_length)

\* C37 amended: longest_match examines at most max_chain candidates, at most
\* max_chain / 4 when prev_length >= good_match, always terminates, and
\* stops early as soon as the length it finds for a candidate exceeds the
\* best length so far and reaches nice_match clamped to lookahead, or the
\* chain leaves the MAX_DIST range, for every row of the level table
C37_BudgetAmended ==
  SearchPoint.run =>
    LET s == SearchPoint.s
        seen == longest_walk(s, SearchPoint.head).seen
        Nice(i) ==
          /\ FoundLen(s, seen[i], FoundBefore(s, seen, i))
               >= Min(s.nice_match, s.lookahead)
          /\ FoundLen(s, seen[i], FoundBefore(s, seen, i))
               > FoundBefore(s, seen, i)
    IN Budgeted(s, seen, Nice)

\* a search that starts from a match as long as good_match and uses up the
\* quarter of max_chain it is given, past a candidate that reaches nice_match
\* without improving
C37_Witness ==
  /\ SearchPoint.run
  /\ LET s == SearchPoint.s
         seen == longest_walk(s, SearchPoint.head).seen
     IN /\ s.prev_length >= s.good_match
        /\ Len(seen) = s.max_chain_length \div 4
        /\ CandidateLen(s, seen[1]) >= Min(s.nice_match, s.lookahead)

\* the greatest length among the candidates of a walk, prev_length if none
\* is longer
Best(s, seen) == BestBefore(s, seen, Len(seen) + 1)

\* the first candidate of a walk whose length is the greatest
FirstBest(s, seen) ==
  seen[CHOOSE i \in 1 .. Len(seen) :
         /\ CandidateLen(s, seen[i]) = Best(s, seen)
         /\ \A j \in 1 .. i - 1 : CandidateLen(s, seen[j]) < Best(s, seen)]

\* what a search gives for the candidates it examined
Found(s, cur_match) ==
  LET seen == longest_walk(s, cur_match).seen
  IN /\ longest_match(s, cur_match).len = Min(Best(s, seen), s.lookahead)
     /\ longest_match(s, cur_match).match_start =
          IF Best(s, seen) > s.prev_length THEN FirstBest(s, seen)
          ELSE s.match_start

\* C38: longest_match returns min(best, lookahead), where best is the
\* greatest common-prefix length, MAX_MATCH at most, among the candidates it
\* examined if that is greater than prev_length and prev_length otherwise;
\* match_start is the first examined candidate that attains best and is
\* unchanged when no candidate improves on prev_length; so the quick
\* rejection on the bytes at best_len and best_len - 1 discards no
\* candidate that would improve
C38_Found == SearchPoint.run => Found(SearchPoint.s, SearchPoint.head)

\* the stream as a pass of the stored engine sees it after it has filled
\* the window
StoredSeen == IF strm.lookahead <= 1 THEN fill_window(strm) ELSE strm

\* the step is a pass of the stored engine
StoredPass == InEngine /\ engine_of(strm) = "stored"

\* every block the pass emits is a stored block that fits
StoredFit ==
  \A i \in 1 .. Len(NewUnits) :
    /\ NewUnits[i][1] \in {"sto", "len", "raw"}
    /\ NewUnits[i][1] = "len" =>
         /\ NewUnits[i][2] <= 65535
         /\ NewUnits[i][2] <= strm.pending_buf_size - 5

\* C39: every block emitted by the stored engine has length at most 65535
\* and at most pending_buf_size - 5; block_start >= 0 whenever the engine
\* flushes, also after slides, so that the block is emitted from the window
\* as a stored block; and the engine leaves insert = 0 when it closes the
\* block at end of input
C39_Stored ==
  [][ StoredPass =>
        /\ Len(Emitted') >= Len(Emitted)
        /\ SubSeq(Emitted', 1, Len(Emitted)) = Emitted
        /\ StoredFit
        /\ NewUnits # <<>> => StoredSeen.block_start >= 0
        /\ StoredSeen.lookahead = 0 /\ call.flush # Z_NO_FLUSH =>
             strm'.insert = 0 ]_vars

\* the stream as a pass of the rle engine sees it after it has filled the
\* window
RleSeen == IF strm.lookahead <= MAX_MATCH THEN fill_window(strm) ELSE strm

\* the number of bytes from p + n on, up to MAX_MATCH from p, that equal b
RECURSIVE Run(_, _, _, _)
Run(w, b, p, n) ==
  IF n = MAX_MATCH \/ w[p + n] # b THEN n ELSE Run(w, b, p, n + 1)

\* the run at strstart of the byte before it
RunAt(s) == Run(s.window, s.window[s.strstart - 1], s.strstart, 0)

\* the position has a run the rle engine takes
Runs(s) == s.strstart > 0 /\ s.lookahead >= MIN_MATCH /\ RunAt(s) >= MIN_MATCH

\* the token the claim gives the position at strstart: a back-reference of
\* distance 1 and length min(r, MAX_MATCH, lookahead), or a literal
RleToken(s) ==
  IF Runs(s)
  THEN <<1, Min(Min(RunAt(s), MAX_MATCH), s.lookahead) - MIN_MATCH>>
  ELSE <<0, s.window[s.strstart]>>

\* the bytes a token stands for
TokenBytes(t) == IF t[1] = 0 THEN 1 ELSE t[2] + MIN_MATCH

\* the step is a pass of the rle engine that takes the position at strstart
RleTakes ==
  /\ InEngine /\ engine_of(strm) = "rle"
  /\ strm'.strstart # RleSeen.strstart

\* the token a pass has added: the last of the tally, or the last before
\* the end of the coded block the pass has emitted
Added(t) ==
  /\ strm'.tally # <<>> => strm'.tally = Append(strm.tally, t)
  /\ \A i \in 2 .. Len(NewUnits) :
       NewUnits[i][1] = "eob" => NewUnits[i - 1] = token_unit(t)

\* C40: every back-reference of the rle engine has distance 1 and length
\* min(r, MAX_MATCH, lookahead), where r >= 3 is the number of consecutive
\* bytes from strstart on that equal the byte at strstart - 1; a position
\* with r < 3, with lookahead < 3 or with strstart = 0 is emitted as a
\* literal
C40_Rle ==
  [][ RleTakes =>
        /\ strm'.strstart = RleSeen.strstart + TokenBytes(RleToken(RleSeen))
        /\ strm'.lookahead = RleSeen.lookahead - TokenBytes(RleToken(RleSeen))
        /\ Added(RleToken(RleSeen)) ]_vars

\* the rle engine is at a run that goes on past the end of the lookahead
C40_Witness ==
  /\ InEngine /\ engine_of(strm) = "rle"
  /\ call.flush # Z_NO_FLUSH
  /\ Runs(RleSeen)
  /\ RunAt(RleSeen) > RleSeen.lookahead

=============================================================================
